---- MODULE Spec2Model ----
(***************************************************************************)
(* Model of the inference session of the llm crates:                       *)
(*   crates/llm-base/src/inference_session.rs  (InferenceSession)          *)
(*   crates/models/gpt2/src/lib.rs             (Gpt2 : KnownModel)         *)
(*   crates/models/rwkv/src/lib.rs             (Rwkv : KnownModel)         *)
(* One session is driven against one model.  Token ids are 0..n_vocab-1,   *)
(* a prompt text is represented by the token ids the tokenizer yields for  *)
(* it, tensors are arrays of slots of n_embd elements each, and the logits *)
(* are represented by the cache contents they were computed from.          *)
(***************************************************************************)
EXTENDS Integers, Sequences, FiniteSets, TLC

\* ---------------------------------------------------------------- bounds
NCtx == 3          \* hyperparameters.n_ctx of the GPT-2 model that is checked
RwkvCtx == 2       \* context_size of the RWKV model that is checked
NLayer == 2        \* layers of the models that are checked
NVocab == 3        \* vocabulary size; the last id is <|endoftext|>
MaxPrompt == 2     \* longest prompt, in tokens
MaxBatch == 2      \* largest params.n_batch
MaxTokens == 3     \* cap on session.tokens (only RWKV can reach it)
MaxCount == 2      \* largest Some(maximum_token_count)
MaxFail == 2       \* the user callback fails at its MaxFail-th call at the latest
NEmbd == 2         \* hyperparameters.n_embd of the models that are checked
MaxDraws == 2      \* infer_next_token calls that two sessions are compared over
MaxHist == 2       \* longest token history the sampler is given
RngDen == 2        \* the RNG draws one of 0/RngDen .. (RngDen-1)/RngDen
MaxCalls == 2      \* calls made on each of the sessions that share a model

None == <<>>
Some(x) == <<x>>

RECURSIVE SeqsUpTo(_, _)
SeqsUpTo(S, n) ==
  IF n = 0 THEN {<<>>}
  ELSE LET r == SeqsUpTo(S, n - 1)
       IN r \cup {Append(s, x) : s \in {q \in r : Len(q) = n - 1}, x \in S}

TokenIds == 0 .. (NVocab - 1)
BadPrompt == <<NVocab>>                 \* a text the tokenizer rejects
Batches == 1 .. MaxBatch
Fails == 0 .. MaxFail                   \* 0: the user callback never fails
Counts == {None} \cup {Some(c) : c \in 0 .. MaxCount}

Min(a, b) == IF a <= b THEN a ELSE b

\* ------------------------------------------------------------ the models
\* Gpt2 { hyperparameters, n_context_tokens, .. }: no field of Gpt2 can be
\* written through &self, cells stays None
Gpt2Model ==
  [arch |-> "gpt2", n_ctx |-> NCtx, n_context_tokens |-> NCtx,
   n_layer |-> NLayer, n_embd |-> NEmbd, n_vocab |-> NVocab,
   bot_token_id |-> None, cells |-> None]

\* Rwkv { hyperparameters, context_size, .. }: cells is what the RefCell
\* fields graph, state, logits and state_parts hold, which can be written
\* through &self; None is what Rwkv::new left in them
RwkvModel ==
  [arch |-> "rwkv", n_ctx |-> RwkvCtx, n_context_tokens |-> RwkvCtx,
   n_layer |-> NLayer, n_embd |-> NEmbd, n_vocab |-> NVocab,
   bot_token_id |-> None, cells |-> None]

Models == {Gpt2Model, RwkvModel}

\* a model that has a beginning-of-text marker, the token id 0; its context
\* holds the marker and the longest prompt
BotModel ==
  [Gpt2Model EXCEPT !.bot_token_id = Some(0), !.n_ctx = MaxPrompt + 2,
                    !.n_context_tokens = MaxPrompt + 2]

\* Model::n_context_tokens(): hyperparameters.n_ctx (GPT-2), context_size (RWKV)
NContextTokens(m) == m.n_ctx

\* Model::bot_token_id(): None for both models
BotTokenId(m) == m.bot_token_id

\* Model::eot_token_id(): the id of "<|endoftext|>"
EotTokenId(m) == m.n_vocab - 1

\* vocab.token(id): the bytes of a token.  "L" is the lead byte of a two-byte
\* code point, "C" its continuation byte, "A" an ASCII byte.
TokenBytes(t) == IF t = 0 THEN <<"L">> ELSE IF t = 1 THEN <<"C">> ELSE <<"A">>

\* vocab.tokenize(prompt, bos): the ids of the prompt, after the model's
\* beginning-of-text marker when bos is set and the model has one.
Tokenize(m, prompt, bos) ==
  IF prompt = BadPrompt THEN [ok |-> FALSE, toks |-> <<>>]
  ELSE [ok |-> TRUE,
        toks |-> IF bos /\ BotTokenId(m) # None
                 THEN BotTokenId(m) \o prompt ELSE prompt]

\* ----------------------------------------------------------- the session
\* enum ModelKVMemoryType
KVMemoryTypes == {"Float16", "Float32"}

\* struct InferenceSessionConfig
Configs == [memory_k_type : KVMemoryTypes, memory_v_type : KVMemoryTypes]

\* InferenceSessionConfig::default()
DefaultConfig == [memory_k_type |-> "Float32", memory_v_type |-> "Float32"]

\* ggml::type_sizef of the ggml type of a memory type, in bytes per element
TypeSize(t) == IF t = "Float16" THEN 2 ELSE 4

\* InferenceSession::new.  A tensor is an array of slots of n_embd elements;
\* None is a slot the program has not written since the tensor was allocated.
NewSession(config, n_ctx, n_layer, n_embd, n_vocab) ==
  [config |-> config,
   n_past |-> 0,
   tokens |-> <<>>,
   last_logits |-> [len |-> n_vocab, of |-> <<>>],
   memory_k |-> [i \in 0 .. (n_layer * n_ctx - 1) |-> None],
   memory_v |-> [i \in 0 .. (n_layer * n_ctx - 1) |-> None],
   state |-> [i \in 0 .. (n_layer * 5 - 1) |-> None]]

\* Gpt2::start_session / Rwkv::start_session
StartSession(m, config) ==
  NewSession(config, m.n_ctx, m.n_layer, m.n_embd, m.n_vocab)

\* common::update_session: the session has consumed n more tokens
UpdateSession(s, n) == [s EXCEPT !.n_past = @ + n]

\* common::read_last_token: the row of the last input token becomes
\* last_logits; it is computed from the keys and values that the cache of
\* layer 0 holds up to that token.
ReadLastToken(m, s, n) ==
  [s EXCEPT !.last_logits =
     [len |-> m.n_vocab,
      of |-> [p \in 1 .. (s.n_past + n) |->
                [k |-> s.memory_k[p - 1], v |-> s.memory_v[p - 1]]]]]

\* The slots a GPT-2 evaluate call writes: for every layer il the view of
\* n slots at offset il * n_ctx + n_past.
Gpt2KvWrite(m, mem, n_past, input) ==
  LET n == Len(input)
      n_ctx == m.n_context_tokens
  IN [i \in DOMAIN mem |->
        IF \E il \in 0 .. (m.n_layer - 1), j \in 0 .. (n - 1) :
              i = il * n_ctx + n_past + j
        THEN LET j == CHOOSE j \in 0 .. (n - 1) :
                        \E il \in 0 .. (m.n_layer - 1) : i = il * n_ctx + n_past + j
             IN Some(input[j + 1])
        ELSE mem[i]]

\* Gpt2::evaluate
Gpt2Evaluate(m, s, input) ==
  LET n == Len(input)
      s1 == [s EXCEPT !.memory_k = Gpt2KvWrite(m, @, s.n_past, input),
                      !.memory_v = Gpt2KvWrite(m, @, s.n_past, input)]
  IN UpdateSession(ReadLastToken(m, s1, n), n)

\* Rwkv::evaluate: the body is commented out
RwkvEvaluate(m, s, input) == s

\* model.evaluate(session, params, input_tokens, output_request)
Evaluate(m, s, input) ==
  IF m.arch = "gpt2" THEN Gpt2Evaluate(m, s, input) ELSE RwkvEvaluate(m, s, input)

\* what one evaluate call was given and what it left behind
EvalRec(s, input, s2) ==
  [n |-> Len(input), last |-> input[Len(input)], before |-> s.n_past,
   after |-> s2.n_past, logits |-> s2.last_logits]

\* -------------------------------------------------------- UTF-8 assembly
\* the length of the longest prefix of b made of complete code points
RECURSIVE CompleteLen(_, _)
CompleteLen(b, i) ==
  IF i > Len(b) THEN Len(b)
  ELSE IF b[i] = "A" THEN CompleteLen(b, i + 1)
  ELSE IF b[i] = "L" /\ i + 1 <= Len(b) /\ b[i + 1] = "C" THEN CompleteLen(b, i + 2)
  ELSE i - 1

\* the concatenation of the sequences of seqs
RECURSIVE Flatten(_)
Flatten(seqs) == IF seqs = <<>> THEN <<>> ELSE Head(seqs) \o Flatten(Tail(seqs))

\* the bytes of the tokens, in order
BytesOf(tokens) == Flatten([p \in DOMAIN tokens |-> TokenBytes(tokens[p])])

\* The prompts that are checked.  feed_prompt takes the prompt as a &str
\* (line 79) and the tokens of a text are pieces of its bytes, so the bytes
\* of the tokens of a prompt are complete code points; a code point may
\* still be split between two tokens of the prompt.
Prompts ==
  {p \in SeqsUpTo(TokenIds, MaxPrompt) : CompleteLen(BytesOf(p), 1) = Len(BytesOf(p))}
    \cup {BadPrompt}

\* TokenUtf8Buffer::push: the complete prefix is returned and the partial
\* tail is kept.
Utf8Push(buf, bytes) ==
  LET b == buf \o bytes
      k == CompleteLen(b, 1)
      tail == SubSeq(b, k + 1, Len(b))
  IN IF k >= 1 /\ tail \in {<<>>, <<"L">>}
     THEN [buf |-> tail, out |-> Some(SubSeq(b, 1, k))]
     ELSE [buf |-> b, out |-> None]

\* ------------------------------------------------------ the user callback
\* A callback is modelled by the number of times it has been called and the
\* call at which it returns an error (failAt = 0: it never does).  mode
\* "bytes" is a callback given to feed_prompt; mode "text" is the callback of
\* infer behind TokenUtf8Buffer::adapt_callback, with the adapter's buffer.
NewCallback(mode, failAt) ==
  [mode |-> mode, failAt |-> failAt, ncb |-> 0, buf |-> <<>>, texts |-> <<>>,
   failed |-> FALSE]

\* the same callback in a later phase of infer: a fresh buffer, and the
\* k-th call from now on fails (k = 0: none does)
Rearm(cb, k) ==
  [cb EXCEPT !.buf = <<>>, !.failAt = IF k = 0 THEN 0 ELSE cb.ncb + k]

\* the user's callback is called once more, with the string str
CallUser(cb, str) ==
  [cb EXCEPT !.ncb = @ + 1, !.texts = Append(@, str),
             !.failed = (cb.ncb + 1 = cb.failAt)]

\* the callback called with the bytes of the token themselves
PushAndCall_Raw(cb, bytes) == CallUser(cb, bytes)

\* the push that forgets the partial tail when no string is complete
PushAndCall_ForgetsTail(cb, bytes) ==
  LET r == Utf8Push(cb.buf, bytes)
  IN IF r.out # None THEN CallUser([cb EXCEPT !.buf = r.buf], r.out[1])
     ELSE [cb EXCEPT !.buf = <<>>]

\* token_utf8_buf.push(bytes), then callback(&tokens) when a string is complete
PushAndCall(cb, bytes) ==
  LET r == Utf8Push(cb.buf, bytes)
      cb1 == [cb EXCEPT !.buf = r.buf]
  IN IF r.out # None THEN CallUser(cb1, r.out[1]) ELSE cb1

\* callback(vocab.token(tk)) as feed_prompt calls it
ByteCallback(cb, tk) ==
  IF cb.mode = "bytes" THEN CallUser(cb, TokenBytes(tk))
  ELSE PushAndCall(cb, TokenBytes(tk))

\* ------------------------------------------------------------ feed_prompt
\* the check of feed_prompt with > in place of >=
FeedContextFull_Gt(m, s, T) == s.n_past + Len(T) > NContextTokens(m)

\* feed_prompt without its check
FeedContextFull_Never(m, s, T) == FALSE

\* if self.n_past + prompt_tokens.len() >= model.n_context_tokens()
FeedContextFull(m, s, T) == s.n_past + Len(T) >= NContextTokens(m)

\* the callback called for the beginning-of-text marker too
ShouldCallCallback_Always(m, tk) == TRUE

\* let should_call_callback = Some(tk) != model.bot_token_id()
ShouldCallCallback(m, tk) == Some(tk) # BotTokenId(m)

\* prompt_tokens.chunks(params.n_batch): the chunk that starts at index i
Chunk(T, nb, i) == SubSeq(T, i, Min(i + nb - 1, Len(T)))

\* The two nested loops of feed_prompt from token index i on.  acc holds the
\* session, the callback, the evaluate calls made and the tokens given to
\* the callback so far; cb_at tells for each callback the index of its
\* token in T and the number of evaluate calls made before it.
RECURSIVE FeedLoop(_, _, _, _, _)
FeedLoop(m, T, nb, i, acc) ==
  IF i > Len(T) THEN [acc EXCEPT !.result = "Ok"]
  ELSE
    LET a1 == IF (i - 1) % nb = 0
              THEN LET s2 == Evaluate(m, acc.sess, Chunk(T, nb, i))
                   IN [acc EXCEPT !.sess = s2,
                         !.evals = Append(@, EvalRec(acc.sess, Chunk(T, nb, i), s2))]
              ELSE acc
        tk == T[i]
        a2 == IF ShouldCallCallback(m, tk)
              THEN [a1 EXCEPT !.cb = ByteCallback(@, tk), !.cbs = Append(@, tk),
                      !.cb_at = Append(@, [index |-> i, evals |-> Len(a1.evals)])]
              ELSE a1
    IN IF a2.cb.failed THEN [a2 EXCEPT !.result = "UserCallback"]
       ELSE FeedLoop(m, T, nb, i + 1,
                     [a2 EXCEPT !.sess.tokens = Append(@, tk)])

\* InferenceSession::feed_prompt
FeedPrompt(m, s, prompt, nb, cb) ==
  LET beginning_of_sentence == s.n_past = 0
      tk == Tokenize(m, prompt, beginning_of_sentence)
      acc == [sess |-> s, cb |-> cb, evals |-> <<>>, cbs |-> <<>>,
              cb_at |-> <<>>, T |-> tk.toks, result |-> "Ok"]
  IN IF ~tk.ok THEN [acc EXCEPT !.result = "TokenizationError"]
     ELSE IF FeedContextFull(m, s, tk.toks) THEN [acc EXCEPT !.result = "ContextFull"]
     ELSE FeedLoop(m, tk.toks, nb, 1, acc)

\* ------------------------------------------------------- infer_next_token
\* the check of infer_next_token with > in place of >=
InferContextFull_Gt(m, s) == s.n_past + 1 > NContextTokens(m)

\* the check of infer_next_token without the + 1
InferContextFull_NoInc(m, s) == s.n_past >= NContextTokens(m)

\* if self.n_past + 1 >= model.n_context_tokens()
InferContextFull(m, s) == s.n_past + 1 >= NContextTokens(m)

\* sample_top_p_top_k returns the id of one of the logits
SampleRange(s) == 0 .. (s.last_logits.len - 1)

\* the result of infer_next_token for the sampled token
NextTokenResult(m, next_token) ==
  IF next_token = EotTokenId(m) THEN "EndOfText" ELSE "Ok"

\* InferenceSession::infer_next_token, next_token being the sampler's draw
InferNextToken(m, s, next_token) ==
  IF InferContextFull(m, s)
  THEN [sess |-> s, result |-> "ContextFull", evals |-> <<>>, samples |-> <<>>]
  ELSE LET s1 == [s EXCEPT !.tokens = Append(@, next_token)]
           s2 == Evaluate(m, s1, <<next_token>>)
       IN [sess |-> s2, result |-> NextTokenResult(m, next_token),
           evals |-> <<EvalRec(s1, <<next_token>>, s2)>>,
           samples |-> <<next_token>>]

\* ------------------------------------------------------------------ infer
\* the loop condition with <= in place of <
LoopCond_Le(tokens_processed, maximum_token_count) ==
  IF maximum_token_count = None THEN TRUE
  ELSE tokens_processed <= maximum_token_count[1]

\* request.maximum_token_count.unwrap_or(usize::MAX), in the loop condition
\* tokens_processed < maximum_token_count
LoopCond(tokens_processed, maximum_token_count) ==
  IF maximum_token_count = None THEN TRUE
  ELSE tokens_processed < maximum_token_count[1]

\* the playback loop visiting the tokens from the last to the first
RECURSIVE PlayBack_Backwards(_, _, _)
PlayBack_Backwards(tokens, i, cb) ==
  IF i > Len(tokens) \/ cb.failed THEN cb
  ELSE PlayBack_Backwards(tokens, i + 1,
                          PushAndCall(cb, TokenBytes(tokens[Len(tokens) + 1 - i])))

\* the playback loop of infer from token index i on
RECURSIVE PlayBack(_, _, _)
PlayBack(tokens, i, cb) ==
  IF i > Len(tokens) \/ cb.failed THEN cb
  ELSE PlayBack(tokens, i + 1, PushAndCall(cb, TokenBytes(tokens[i])))

\* the match of the generation loop without its EndOfText arm
LoopOutcome_NoBreak(result) ==
  IF result = "Ok" THEN "continue" ELSE "return"

\* the match of the generation loop treating EndOfText as a token
LoopOutcome_EotContinues(result) ==
  IF result \in {"Ok", "EndOfText"} THEN "continue" ELSE "return"

\* what the generation loop does with the result of infer_next_token
LoopOutcome(result) ==
  IF result = "Ok" THEN "continue"
  ELSE IF result = "EndOfText" THEN "break"
  ELSE "return"

\* InferenceStats, without the durations
Stats(prompt_tokens, predict_tokens) ==
  [prompt_tokens |-> prompt_tokens, predict_tokens |-> predict_tokens]

\* ------------------------------------------------------------- the state
VARIABLES
  model,     \* the model the session was started from
  session,   \* the InferenceSession
  frame,     \* the locals of a running infer call
  call,      \* what the current or the last call was given and what it did
  hist_ok    \* so far only feed_prompt / infer_next_token calls, all Ok

vars == <<model, session, frame, call, hist_ok>>

Idle == [pc |-> "idle", maximum_token_count |-> None, tokens_processed |-> 0,
         cb |-> NewCallback("text", 0), prompt_tokens |-> 0]

NoCall(op) ==
  [op |-> op, T |-> <<>>, maximum_token_count |-> None, play_back |-> FALSE,
   result |-> "Ok", evals |-> <<>>, cbs |-> <<>>, texts |-> <<>>,
   samples |-> <<>>, next_calls |-> 0, prompt_tokens |-> 0, stats |-> None,
   snapshot |-> None, error |-> None, written |-> {}, cb_at |-> <<>>]

Init ==
  /\ model \in Models
  /\ session = StartSession(model, DefaultConfig)
  /\ frame = Idle
  /\ call = NoCall("start_session")
  /\ hist_ok = TRUE

\* session.feed_prompt(model, params, prompt, output_request, callback)
FeedPromptCall(prompt, nb, failAt) ==
  /\ frame.pc = "idle"
  /\ Len(session.tokens) + Len(prompt) <= MaxTokens
  /\ LET r == FeedPrompt(model, session, prompt, nb, NewCallback("bytes", failAt))
     IN /\ session' = r.sess
        /\ call' = [NoCall("feed_prompt") EXCEPT
                      !.T = r.T, !.result = r.result, !.evals = r.evals,
                      !.cbs = r.cbs, !.texts = r.cb.texts, !.cb_at = r.cb_at]
        /\ hist_ok' = (hist_ok /\ r.result = "Ok")
  /\ UNCHANGED <<model, frame>>

\* session.infer_next_token(model, params, output_request, rng)
InferNextTokenCall(next_token) ==
  /\ frame.pc = "idle"
  /\ Len(session.tokens) < MaxTokens
  /\ LET r == InferNextToken(model, session, next_token)
     IN /\ session' = r.sess
        /\ call' = [NoCall("infer_next_token") EXCEPT
                      !.result = r.result, !.evals = r.evals,
                      !.samples = r.samples, !.next_calls = 1]
        /\ hist_ok' = (hist_ok /\ r.result = "Ok")
  /\ UNCHANGED <<model, frame>>

\* session.infer(..) up to the call of feed_prompt: the playback phase
InferPlayBack(maximum_token_count, play_back, failAt) ==
  /\ frame.pc = "idle"
  /\ LET cb0 == NewCallback("text", failAt)
         cb1 == IF play_back THEN PlayBack(session.tokens, 1, cb0) ELSE cb0
         c0 == [NoCall("infer") EXCEPT
                  !.maximum_token_count = maximum_token_count,
                  !.play_back = play_back, !.texts = cb1.texts]
     IN IF cb1.failed
        THEN /\ call' = [c0 EXCEPT !.result = "UserCallback"]
             /\ frame' = Idle
        ELSE /\ call' = [c0 EXCEPT !.result = "Running"]
             /\ frame' = [Idle EXCEPT !.pc = "feed", !.cb = cb1,
                            !.maximum_token_count = maximum_token_count]
  /\ hist_ok' = FALSE
  /\ UNCHANGED <<model, session>>

\* infer: self.feed_prompt(.., TokenUtf8Buffer::adapt_callback(&mut callback))?
\* and the entry of the generation loop
InferFeed(prompt, nb, failAt) ==
  /\ frame.pc = "feed"
  /\ Len(session.tokens) + Len(prompt) <= MaxTokens
  /\ LET r == FeedPrompt(model, session, prompt, nb, Rearm(frame.cb, failAt))
     IN /\ session' = r.sess
        /\ call' = [call EXCEPT
                      !.T = r.T, !.evals = r.evals, !.cbs = r.cbs, !.cb_at = r.cb_at,
                      !.texts = r.cb.texts, !.prompt_tokens = r.sess.n_past,
                      !.result = IF r.result = "Ok" THEN "Running" ELSE r.result]
        /\ frame' = IF r.result = "Ok"
                    THEN [frame EXCEPT !.pc = "generate",
                            !.tokens_processed = 0,
                            !.cb = Rearm(r.cb, 0),
                            !.prompt_tokens = r.sess.n_past]
                    ELSE Idle
  /\ UNCHANGED <<model, hist_ok>>

\* one iteration of the generation loop of infer
InferStep(next_token, fail) ==
  /\ frame.pc = "generate"
  /\ LoopCond(frame.tokens_processed, frame.maximum_token_count)
  /\ Len(session.tokens) < MaxTokens
  /\ LET r == InferNextToken(model, session, next_token)
         out == LoopOutcome(r.result)
         cb0 == [frame.cb EXCEPT !.failAt = IF fail THEN frame.cb.ncb + 1 ELSE 0]
         cb1 == IF out = "continue" THEN PushAndCall(cb0, TokenBytes(next_token))
                ELSE cb0
         c1 == [call EXCEPT !.evals = r.evals, !.samples = @ \o r.samples,
                            !.next_calls = @ + 1, !.texts = cb1.texts]
     IN /\ session' = r.sess
        /\ IF out = "return"
           THEN /\ call' = [c1 EXCEPT !.result = r.result]
                /\ frame' = Idle
           ELSE IF out = "break"
           THEN /\ call' = [c1 EXCEPT !.result = "Ok",
                              !.stats = Some(Stats(frame.prompt_tokens, r.sess.n_past))]
                /\ frame' = Idle
           ELSE IF cb1.failed
           THEN /\ call' = [c1 EXCEPT !.result = "UserCallback"]
                /\ frame' = Idle
           ELSE /\ call' = c1
                /\ frame' = [frame EXCEPT !.cb = cb1, !.tokens_processed = @ + 1]
  /\ UNCHANGED <<model, hist_ok>>

\* the loop condition of infer is false: the statistics are returned
InferReturn ==
  /\ frame.pc = "generate"
  /\ ~LoopCond(frame.tokens_processed, frame.maximum_token_count)
  /\ call' = [call EXCEPT !.result = "Ok", !.evals = <<>>,
                !.stats = Some(Stats(frame.prompt_tokens, session.n_past))]
  /\ frame' = Idle
  /\ UNCHANGED <<model, session, hist_ok>>

Next ==
  \/ \E prompt \in Prompts, nb \in Batches, failAt \in Fails :
        FeedPromptCall(prompt, nb, failAt)
  \/ \E next_token \in SampleRange(session) : InferNextTokenCall(next_token)
  \/ \E maximum_token_count \in Counts, play_back \in BOOLEAN, failAt \in Fails :
        InferPlayBack(maximum_token_count, play_back, failAt)
  \/ \E prompt \in Prompts, nb \in Batches, failAt \in Fails :
        InferFeed(prompt, nb, failAt)
  \/ \E next_token \in SampleRange(session), fail \in BOOLEAN :
        InferStep(next_token, fail)
  \/ InferReturn

Spec == Init /\ [][Next]_vars

TypeOK ==
  /\ session.n_past \in Nat
  /\ frame.pc \in {"idle", "feed", "generate"}

\* -------------------------------------------------------------- snapshots
\* tensor.nbytes(): every slot holds NEmbd elements of the tensor's type
NBytes(data, type) == Cardinality(DOMAIN data) * NEmbd * TypeSize(type)

\* the bytes of a tensor as a slice: their number and the slots they hold
Bytes(data, type) == [len |-> NBytes(data, type), data |-> data]

\* get_snapshot taking npast from the number of tokens
GetSnapshot_TokenCount(s) ==
  [npast |-> Len(s.tokens),
   config |-> s.config,
   tokens |-> s.tokens,
   logits |-> s.last_logits,
   memory_k |-> Bytes(s.memory_k, s.config.memory_k_type),
   memory_v |-> Bytes(s.memory_v, s.config.memory_v_type),
   state |-> Bytes(s.state, "Float32")]

\* InferenceSession::get_snapshot
GetSnapshot(s) ==
  [npast |-> s.n_past,
   config |-> s.config,
   tokens |-> s.tokens,
   logits |-> s.last_logits,
   memory_k |-> Bytes(s.memory_k, s.config.memory_k_type),
   memory_v |-> Bytes(s.memory_v, s.config.memory_v_type),
   state |-> Bytes(s.state, "Float32")]

\* InferenceSnapshotRef::to_owned
ToOwned(r) ==
  [npast |-> r.npast,
   config |-> r.config,
   tokens |-> r.tokens,
   last_logits |-> r.logits,
   memory_k |-> r.memory_k,
   memory_v |-> r.memory_v,
   state |-> r.state]

\* SnapshotError::MemorySizeMismatch { self_size, input_size }
MemorySizeMismatch(self_size, input_size) ==
  [kind |-> "MemorySizeMismatch", self_size |-> self_size, input_size |-> input_size]

\* from_snapshot without the assignment of last_logits
FromSnapshot_NoLogits(snapshot, m) ==
  LET session0 == StartSession(m, snapshot.config)
      k == NBytes(session0.memory_k, session0.config.memory_k_type)
      v == NBytes(session0.memory_v, session0.config.memory_v_type)
      st == NBytes(session0.state, "Float32")
  IN IF k # snapshot.memory_k.len \/ v # snapshot.memory_v.len
     THEN [result |-> "Err", sess |-> None, written |-> {},
           error |-> Some(MemorySizeMismatch(
                      k + v, snapshot.memory_k.len + snapshot.memory_v.len))]
     ELSE IF st # snapshot.state.len
     THEN [result |-> "Err", sess |-> None, written |-> {},
           error |-> Some(MemorySizeMismatch(st, snapshot.state.len))]
     ELSE [result |-> "Ok", error |-> None,
           written |-> {"memory_k", "memory_v", "state"},
           sess |-> Some([session0 EXCEPT
                            !.memory_k = snapshot.memory_k.data,
                            !.memory_v = snapshot.memory_v.data,
                            !.state = snapshot.state.data,
                            !.n_past = snapshot.npast,
                            !.tokens = snapshot.tokens])]

\* from_snapshot without the write_data calls that copy the tensors
FromSnapshot_NoWriteData(snapshot, m) ==
  LET session0 == StartSession(m, snapshot.config)
      k == NBytes(session0.memory_k, session0.config.memory_k_type)
      v == NBytes(session0.memory_v, session0.config.memory_v_type)
      st == NBytes(session0.state, "Float32")
  IN IF k # snapshot.memory_k.len \/ v # snapshot.memory_v.len
     THEN [result |-> "Err", sess |-> None, written |-> {},
           error |-> Some(MemorySizeMismatch(
                      k + v, snapshot.memory_k.len + snapshot.memory_v.len))]
     ELSE IF st # snapshot.state.len
     THEN [result |-> "Err", sess |-> None, written |-> {},
           error |-> Some(MemorySizeMismatch(st, snapshot.state.len))]
     ELSE [result |-> "Ok", error |-> None,
           written |-> {},
           sess |-> Some([session0 EXCEPT
                            !.n_past = snapshot.npast,
                            !.tokens = snapshot.tokens,
                            !.last_logits = snapshot.last_logits])]

\* from_snapshot comparing the summed sizes of memory_k and memory_v
FromSnapshot_SumCheck(snapshot, m) ==
  LET session0 == StartSession(m, snapshot.config)
      k == NBytes(session0.memory_k, session0.config.memory_k_type)
      v == NBytes(session0.memory_v, session0.config.memory_v_type)
      st == NBytes(session0.state, "Float32")
  IN IF k + v # snapshot.memory_k.len + snapshot.memory_v.len
     THEN [result |-> "Err", sess |-> None, written |-> {},
           error |-> Some(MemorySizeMismatch(
                      k + v, snapshot.memory_k.len + snapshot.memory_v.len))]
     ELSE IF st # snapshot.state.len
     THEN [result |-> "Err", sess |-> None, written |-> {},
           error |-> Some(MemorySizeMismatch(st, snapshot.state.len))]
     ELSE [result |-> "Ok", error |-> None,
           written |-> {"memory_k", "memory_v", "state"},
           sess |-> Some([session0 EXCEPT
                            !.memory_k = snapshot.memory_k.data,
                            !.memory_v = snapshot.memory_v.data,
                            !.state = snapshot.state.data,
                            !.n_past = snapshot.npast,
                            !.tokens = snapshot.tokens,
                            !.last_logits = snapshot.last_logits])]

\* InferenceSession::from_snapshot.  written is the set of tensors whose
\* data was overwritten with the snapshot's bytes.
FromSnapshot(snapshot, m) ==
  LET session0 == StartSession(m, snapshot.config)
      k == NBytes(session0.memory_k, session0.config.memory_k_type)
      v == NBytes(session0.memory_v, session0.config.memory_v_type)
      st == NBytes(session0.state, "Float32")
  IN IF k # snapshot.memory_k.len \/ v # snapshot.memory_v.len
     THEN [result |-> "Err", sess |-> None, written |-> {},
           error |-> Some(MemorySizeMismatch(
                      k + v, snapshot.memory_k.len + snapshot.memory_v.len))]
     ELSE IF st # snapshot.state.len
     THEN [result |-> "Err", sess |-> None, written |-> {},
           error |-> Some(MemorySizeMismatch(st, snapshot.state.len))]
     ELSE [result |-> "Ok", error |-> None,
           written |-> {"memory_k", "memory_v", "state"},
           sess |-> Some([session0 EXCEPT
                            !.memory_k = snapshot.memory_k.data,
                            !.memory_v = snapshot.memory_v.data,
                            !.state = snapshot.state.data,
                            !.n_past = snapshot.npast,
                            !.tokens = snapshot.tokens,
                            !.last_logits = snapshot.last_logits])]

OtherType(t) == IF t = "Float16" THEN "Float32" ELSE "Float16"

\* The snapshots a caller hands to from_snapshot: the snapshot of the
\* session s, and that snapshot after one of its fields was altered (a
\* snapshot is plain data that is deserialized from a file).
SnapshotsOf(m, s) ==
  LET a == ToOwned(GetSnapshot(s))
  IN {a,
      [a EXCEPT !.memory_k.len = @ + 1],
      [a EXCEPT !.memory_v.len = @ - 1],
      [a EXCEPT !.memory_k.len = @ + 1, !.memory_v.len = @ - 1],
      [a EXCEPT !.state.len = @ + 1],
      [a EXCEPT !.config.memory_k_type = OtherType(@)],
      [a EXCEPT !.last_logits.len = m.n_vocab - 1],
      [a EXCEPT !.tokens = SubSeq(@, 1, Len(@) - 1)]}
     \cup {[a EXCEPT !.npast = np] : np \in 0 .. m.n_ctx}

\* what sample_top_p_top_k reads of the session
SamplerInput(s) == [logits |-> s.last_logits, tokens |-> s.tokens]

\* Successive infer_next_token calls on s, the sampler returning draws[i] at
\* the i-th call: the result of each call and what its sampler was given.
RECURSIVE NextTokens(_, _, _)
NextTokens(m, s, draws) ==
  IF draws = <<>> THEN <<>>
  ELSE LET r == InferNextToken(m, s, Head(draws))
       IN <<[result |-> r.result,
             input |-> IF r.result = "ContextFull" THEN None
                       ELSE Some(SamplerInput(s))]>>
          \o NextTokens(m, r.sess, Tail(draws))

\* the models whose sessions are saved and restored: the context of the
\* GPT-2 model has room for two sampled tokens after a prompt
SnapshotModels ==
  {[Gpt2Model EXCEPT !.n_ctx = NCtx + 1, !.n_context_tokens = NCtx + 1], RwkvModel}

\* the state after let session = model.start_session(config)
InitSnapshot ==
  /\ model \in SnapshotModels
  /\ \E config \in Configs : session = StartSession(model, config)
  /\ frame = Idle
  /\ call = NoCall("start_session")
  /\ hist_ok = TRUE

\* session = InferenceSession::from_snapshot(snapshot, model)?: on an error
\* the caller is left with the session it had.  A run restores one snapshot,
\* taken after feed_prompt and infer_next_token calls that returned Ok.
FromSnapshotCall(snapshot) ==
  /\ frame.pc = "idle"
  /\ hist_ok
  /\ LET r == FromSnapshot(snapshot, model)
     IN /\ session' = IF r.result = "Ok" THEN r.sess[1] ELSE session
        /\ call' = [NoCall("from_snapshot") EXCEPT
                      !.result = r.result, !.snapshot = Some(snapshot),
                      !.error = r.error, !.written = r.written]
  /\ hist_ok' = FALSE
  /\ UNCHANGED <<model, frame>>

NextSnapshot ==
  \/ \E prompt \in Prompts, nb \in Batches : FeedPromptCall(prompt, nb, 0)
  \/ \E next_token \in SampleRange(session) : InferNextTokenCall(next_token)
  \/ \E snapshot \in SnapshotsOf(model, session) : FromSnapshotCall(snapshot)

SpecSnapshot == InitSnapshot /\ [][NextSnapshot]_vars

\* ------------------------------------------------------------ the sampler
\* f32 values: the finite ones in steps of a quarter, the infinities and NaN
Fin(q) == [k |-> "fin", q |-> q]
PosInf == [k |-> "inf", q |-> 0]
NegInf == [k |-> "ninf", q |-> 0]
NaN == [k |-> "nan", q |-> 0]           \* a NaN with the sign bit clear
NegNaN == [k |-> "nnan", q |-> 0]       \* a NaN with the sign bit set

\* the integer x as an f32
ToF32(x) == Fin(4 * x)

\* f32::total_cmp(a, b) == Less: a NaN with the sign bit set is below
\* -inf, a NaN with the sign bit clear above +inf
Rank(a) ==
  CASE a.k = "nnan" -> 0 [] a.k = "ninf" -> 1 [] a.k = "fin" -> 2
    [] a.k = "inf" -> 3 [] OTHER -> 4
TotalLess(a, b) ==
  \/ Rank(a) < Rank(b)
  \/ a.k = "fin" /\ b.k = "fin" /\ a.q < b.q

\* a - b in f32; of a NaN result only that it is a NaN is read
F32Sub(a, b) ==
  IF a.k \in {"nan", "nnan"} \/ b.k \in {"nan", "nnan"} THEN NaN
  ELSE IF a.k = "fin" /\ b.k = "fin" THEN Fin(a.q - b.q)
  ELSE IF a.k = b.k THEN NaN
  ELSE IF a.k = "inf" \/ b.k = "ninf" THEN PosInf
  ELSE NegInf

\* exp(-q/4) in millionths, for q = 0, 1, ..
ExpTable ==
  <<1000000, 778801, 606531, 472367, 367879, 286505, 223130, 173774, 135335,
    105399, 82085, 63928, 49787, 38774, 30197, 23518, 18316, 14264, 11109,
    8652, 6738, 5248, 4087, 3183, 2479, 1930, 1503, 1171, 912, 710, 553, 431,
    335, 261, 203, 158, 123, 96, 75, 58, 45>>

\* d.exp() in millionths for d <= 0 that is not NaN; a value below the
\* table is so small that the f32 result is 0
ExpMicro(d) ==
  IF d.k = "ninf" THEN 0
  ELSE IF 0 - d.q < Len(ExpTable) THEN ExpTable[1 - d.q]
  ELSE 0

\* a < 0.0 in f32: false for a NaN of either sign
F32Lt0(a) == a.k = "ninf" \/ (a.k = "fin" /\ a.q < 0)

\* a * p and a / p in f32 for a whole number p > 0; a NaN stays the NaN
\* whose sign Scaled was told
F32Mul(a, p) == IF a.k = "fin" THEN Fin(a.q * p) ELSE a
F32Div(a, p) == IF a.k = "fin" THEN Fin(a.q \div p) ELSE a

\* logit * scale with scale = 1.0 / params.temperature.  The temperature is
\* a whole number: 1.0 / 0.0 is +inf, and 0.0 * inf is NaN.  The sign of a
\* NaN that arithmetic returns is not fixed by the language but left to the
\* target (x86-64 sets it for 0.0 * inf): sign_set says whether it is set.
Scaled(logit, temperature, sign_set) ==
  IF logit.k \in {"nan", "nnan"} \/ (temperature = 0 /\ logit.k = "fin" /\ logit.q = 0)
  THEN IF sign_set THEN NegNaN ELSE NaN
  ELSE IF temperature = 0
  THEN IF F32Lt0(logit) THEN NegInf ELSE PosInf
  ELSE IF logit.k = "fin"
  THEN IF temperature > 0 THEN Fin(logit.q \div temperature)
       ELSE Fin(0 - (logit.q \div (0 - temperature)))
  ELSE IF (logit.k = "inf") = (temperature > 0) THEN PosInf ELSE NegInf

\* the window taken to be the whole history
InWindow_WholeHistory(tokens, last_n, i) == \E p \in DOMAIN tokens : tokens[p] = i

\* self.tokens[len.saturating_sub(repetition_penalty_last_n)..].contains(&i)
InWindow(tokens, last_n, i) ==
  \E p \in (Len(tokens) - Min(last_n, Len(tokens)) + 1) .. Len(tokens) : tokens[p] = i

\* the transform with a penalty that is subtracted from the scaled logit
Transform_Subtract(logits, tokens, params, neg, i) ==
  IF i \in DOMAIN params.bias_tokens THEN params.bias_tokens[i]
  ELSE IF InWindow(tokens, params.repetition_penalty_last_n, i)
  THEN F32Sub(Scaled(logits[i], params.temperature, i \in neg), ToF32(params.repeat_penalty))
  ELSE Scaled(logits[i], params.temperature, i \in neg)

\* the transform that divides by the penalty whatever the sign of the logit
Transform_AlwaysDivide(logits, tokens, params, neg, i) ==
  IF i \in DOMAIN params.bias_tokens THEN params.bias_tokens[i]
  ELSE IF InWindow(tokens, params.repetition_penalty_last_n, i)
  THEN F32Div(Scaled(logits[i], params.temperature, i \in neg), params.repeat_penalty)
  ELSE Scaled(logits[i], params.temperature, i \in neg)

\* the transform that looks at the repetition window before the bias
Transform_WindowFirst(logits, tokens, params, neg, i) ==
  IF InWindow(tokens, params.repetition_penalty_last_n, i)
  THEN IF F32Lt0(logits[i])
       THEN F32Mul(Scaled(logits[i], params.temperature, i \in neg), params.repeat_penalty)
       ELSE F32Div(Scaled(logits[i], params.temperature, i \in neg), params.repeat_penalty)
  ELSE IF i \in DOMAIN params.bias_tokens THEN params.bias_tokens[i]
  ELSE Scaled(logits[i], params.temperature, i \in neg)

\* the transform that branches on the sign of the scaled value
Transform_ScaledSign(logits, tokens, params, neg, i) ==
  IF i \in DOMAIN params.bias_tokens THEN params.bias_tokens[i]
  ELSE IF InWindow(tokens, params.repetition_penalty_last_n, i)
  THEN IF F32Lt0(Scaled(logits[i], params.temperature, i \in neg))
       THEN F32Mul(Scaled(logits[i], params.temperature, i \in neg), params.repeat_penalty)
       ELSE F32Div(Scaled(logits[i], params.temperature, i \in neg), params.repeat_penalty)
  ELSE Scaled(logits[i], params.temperature, i \in neg)

\* the value pushed to logits_id for token i; neg holds the tokens for
\* which a NaN that the arithmetic returns has its sign bit set
Transform(logits, tokens, params, neg, i) ==
  IF i \in DOMAIN params.bias_tokens THEN params.bias_tokens[i]
  ELSE IF InWindow(tokens, params.repetition_penalty_last_n, i)
  THEN IF F32Lt0(logits[i])
       THEN F32Mul(Scaled(logits[i], params.temperature, i \in neg), params.repeat_penalty)
       ELSE F32Div(Scaled(logits[i], params.temperature, i \in neg), params.repeat_penalty)
  ELSE Scaled(logits[i], params.temperature, i \in neg)

\* the sort with the comparison the other way round: ascending
SortedIds_Ascending(val, tie) ==
  LET At(i) == CHOOSE p \in DOMAIN tie : tie[p] = i
      Before(j, i) ==
        \/ TotalLess(val[j], val[i])
        \/ val[i] = val[j] /\ At(j) < At(i)
      Pos(i) == 1 + Cardinality({j \in DOMAIN val : Before(j, i)})
  IN [p \in 1 .. Cardinality(DOMAIN val) |-> CHOOSE i \in DOMAIN val : Pos(i) = p]

\* logits_id.partial_sort(top_k, descending by total_cmp) as a sequence of
\* token ids.  The comparison looks at the values only (b.0.total_cmp(&a.0))
\* and the routine is not a stable sort, so the order of equal values is
\* the routine's choice: tie lists the token ids in the order in which
\* equal values come out.
SortedIds(val, tie) ==
  LET At(i) == CHOOSE p \in DOMAIN tie : tie[p] = i
      Before(j, i) ==
        \/ TotalLess(val[i], val[j])
        \/ val[i] = val[j] /\ At(j) < At(i)
      Pos(i) == 1 + Cardinality({j \in DOMAIN val : Before(j, i)})
  IN [p \in 1 .. Cardinality(DOMAIN val) |-> CHOOSE i \in DOMAIN val : Pos(i) = p]

\* the sums of the first p entries of w, for p = 0 .. Len(w)
CumSums(w) ==
  LET cum[p \in 0 .. Len(w)] == IF p = 0 THEN 0 ELSE w[p] + cum[p - 1]
  IN cum

\* a panic of the sampler
Panic(at) ==
  [status |-> "panic", at |-> at, token |-> None, cand |-> <<>>, surv |-> <<>>,
   weights |-> <<>>, total |-> 0]

\* logits_id after partial_sort and truncate(top_k)
Candidates(val, top_k, tie) ==
  SubSeq(SortedIds(val, tie), 1, Min(top_k, Cardinality(DOMAIN val)))

\* maxl: the largest value of logits_id by total_cmp
MaxLogit(val, cand) ==
  val[CHOOSE i \in {cand[p] : p \in DOMAIN cand} :
        \A p \in DOMAIN cand : ~TotalLess(val[i], val[cand[p]])]

\* l - maxl for each entry of logits_id
Shifted(val, cand, maxl) == [p \in DOMAIN cand |-> F32Sub(val[cand[p]], maxl)]

\* the top-p loop with cumsum > top_p in place of cumsum >= top_p
TopPCut_Strict(cum, n, top_p) ==
  LET reached == {p \in 1 .. n : cum[p] * 100 > top_p * cum[n]}
  IN IF top_p < 100 /\ reached # {}
     THEN CHOOSE p \in reached : \A r \in reached : p <= r
     ELSE n

\* the number of entries that the top-p loop keeps: all of them, or with
\* top_p < 1.0 the entries up to the first whose cumulative sum reaches top_p
TopPCut(cum, n, top_p) ==
  LET reached == {p \in 1 .. n : cum[p] * 100 >= top_p * cum[n]}
  IN IF top_p < 100 /\ reached # {}
     THEN CHOOSE p \in reached : \A r \in reached : p <= r
     ELSE n

\* WeightedIndex::new(&probs).expect(..) and dist.sample(rng) on the first
\* cut entries.  rng / RngDen is the fraction of the total weight that is
\* drawn.  cand is logits_id after the truncation to top_k, surv after the
\* truncation of top-p; weights are the probabilities of surv in millionths
\* of the largest, total their sum.
Draw(cand, w, cum, cut, rng) ==
  IF cum[cut] = 0 THEN Panic("WeightedIndex error")
  ELSE [status |-> "ok", at |-> "",
        token |-> Some(cand[1 + Cardinality({p \in 1 .. cut :
                                              cum[p] * RngDen <= rng * cum[cut]})]),
        cand |-> cand, surv |-> SubSeq(cand, 1, cut),
        weights |-> SubSeq(w, 1, cut), total |-> cum[cut]]

\* the top-p truncation and the draw on the weights w of logits_id
SampleWeighted(cand, w, top_p, rng) ==
  Draw(cand, w, CumSums(w), TopPCut(CumSums(w), Len(cand), top_p), rng)

\* the probabilities (l - maxl).exp() and what follows them; a NaN among
\* them is an invalid weight of WeightedIndex::new
SampleShifted(cand, d, top_p, rng) ==
  IF \E p \in DOMAIN d : d[p].k \in {"nan", "nnan"} THEN Panic("WeightedIndex error")
  ELSE SampleWeighted(cand, [p \in DOMAIN d |-> ExpMicro(d[p])], top_p, rng)

\* sample_top_p_top_k from the truncated logits_id on
SampleCandidates(val, cand, top_p, rng) ==
  IF cand = <<>> THEN Panic("maxl unwrap")
  ELSE SampleShifted(cand, Shifted(val, cand, MaxLogit(val, cand)), top_p, rng)

\* sample_top_p_top_k from the transformed logits val on.  partial_sort
\* requires top_k <= logits_id.len(): with a larger top_k the call is out
\* of the routine's contract, and the empty tie is the outcome in which it
\* leaves no order because it does not return.
SampleValues(val, params, rng, tie) ==
  IF tie = <<>> THEN Panic("partial_sort")
  ELSE SampleCandidates(val, Candidates(val, params.top_k, tie), params.top_p, rng)

\* the values pushed to logits_id, by token id
Values(logits, tokens, params, neg) ==
  [i \in DOMAIN logits |-> Transform(logits, tokens, params, neg, i)]

\* the sampler taking its history from the first n_past tokens
Sample_CommittedTokens(s, params, rng, neg, tie) ==
  SampleValues(Values(s.last_logits, SubSeq(s.tokens, 1, s.n_past), params, neg),
               params, rng, tie)

\* InferenceSession::sample_top_p_top_k.  What the code leaves open is an
\* input: neg, the signs of the NaNs the arithmetic returns, and tie, the
\* order partial_sort gives to equal values.
Sample(s, params, rng, neg, tie) ==
  SampleValues(Values(s.last_logits, s.tokens, params, neg), params, rng, tie)

\* infer_next_token after the sampler returned or panicked
InferNextTokenWith(m, s, smp) ==
  IF smp.status = "panic"
  THEN [call |-> [sess |-> s, result |-> "panic", evals |-> <<>>, samples |-> <<>>],
        sample |-> Some(smp)]
  ELSE [call |-> InferNextToken(m, s, smp.token[1]), sample |-> Some(smp)]

\* InferenceSession::infer_next_token with the sampler it calls
InferNextTokenSampled(m, s, params, rng, neg, tie) ==
  IF InferContextFull(m, s)
  THEN [call |-> InferNextToken(m, s, 0), sample |-> None]
  ELSE InferNextTokenWith(m, s, Sample(s, params, rng, neg, tie))

\* the inputs of the sampler that are checked
LogitValues == {ToF32(-2), ToF32(0), ToF32(2), PosInf, NaN}
LogitVectors == [TokenIds -> LogitValues]
HistoryOf(n) == [p \in 1 .. n |-> (n - p) % NVocab]
Histories == {HistoryOf(n) : n \in 0 .. MaxHist}
BiasIds == {0}
BiasValues == {PosInf, ToF32(200)}
BiasMaps == {<<>>} \cup {[i \in {t} |-> v] : t \in BiasIds, v \in BiasValues}
SamplerParams ==
  [temperature : {-1, 0, 1, 2}, top_k : 0 .. (NVocab + 1), top_p : {50, 100},
   repeat_penalty : {1, 2}, repetition_penalty_last_n : 0 .. MaxHist,
   bias_tokens : BiasMaps]
\* the orders in which partial_sort can leave equal values: every order of
\* the token ids
Ties == {t \in [1 .. NVocab -> TokenIds] : \A p, q \in 1 .. NVocab : t[p] = t[q] => p = q}

\* what partial_sort(top_k, ..) can do on the values val: it leaves equal
\* values in any order, and with top_k > n it may also not return.  Of the
\* orders that agree on the first top_k entries, which are all that
\* truncate(top_k) keeps, one is taken.
SortOutcomes(val, top_k) ==
  LET orders == {SortedIds(val, t) : t \in Ties}
      n == Cardinality(DOMAIN val)
      kept == {SubSeq(o, 1, Min(top_k, n)) : o \in orders}
  IN {CHOOSE o \in orders : SubSeq(o, 1, Min(top_k, n)) = c : c \in kept}
       \cup (IF top_k > n THEN {<<>>} ELSE {})

\* The signs of the NaNs among the values and the order of equal values,
\* which the code leaves open: every choice of signs for the tokens whose
\* value is a NaN that the arithmetic returned, with every outcome of the
\* sort.  All that is read of a kept NaN is that it is one, so of the
\* choices that keep the same candidates one is taken.
SignedOutcomes(logits, tokens, params) ==
  LET open == {i \in DOMAIN logits \ DOMAIN params.bias_tokens :
                 Transform(logits, tokens, params, {}, i).k = "nan"}
      all == UNION {{<<neg, tie,
                       IF tie = <<>> THEN <<NVocab>>
                       ELSE Candidates(Values(logits, tokens, params, neg),
                                       params.top_k, tie)>> :
                       tie \in SortOutcomes(Values(logits, tokens, params, neg),
                                            params.top_k)} :
                    neg \in SUBSET open}
  IN {<<c[1], c[2]>> : c \in {CHOOSE c \in all : c[3] = k : k \in {c[3] : c \in all}}}

\* a GPT-2 model whose context holds the longest history and a sampled token
SamplerModel == [Gpt2Model EXCEPT !.n_ctx = MaxHist + 2, !.n_context_tokens = MaxHist + 2]

\* a session that was fed the history, with the numbers of its last_logits
InitSampler ==
  /\ model = SamplerModel
  /\ \E tokens \in Histories, logits \in LogitVectors :
        session = [FeedPrompt(model, StartSession(model, DefaultConfig), tokens,
                              MaxBatch, NewCallback("bytes", 0)).sess
                     EXCEPT !.last_logits = logits]
  /\ frame = Idle
  /\ call = NoCall("start_session")
  /\ hist_ok = TRUE

\* session.infer_next_token(model, params, output_request, rng)
InferNextTokenSampledCall(params, rng, neg, tie) ==
  /\ \E r \in {InferNextTokenSampled(model, session, params, rng, neg, tie)} :
        /\ session' = r.call.sess
        /\ call' = [op |-> "infer_next_token", params |-> params, rng |-> rng,
                    neg |-> neg, tie |-> tie, result |-> r.call.result, evals |-> r.call.evals,
                    samples |-> r.call.samples, sample |-> r.sample]
        /\ hist_ok' = (r.call.result = "Ok")
  /\ UNCHANGED <<model, frame>>

\* one call is made on each session
NextSampler ==
  /\ call.op = "start_session"
  /\ \E params \in SamplerParams :
        \E c \in SignedOutcomes(session.last_logits, session.tokens, params) :
           \E rng \in 0 .. (RngDen - 1) :
              InferNextTokenSampledCall(params, rng, c[1], c[2])

SpecSampler == InitSampler /\ [][NextSampler]_vars

\* ------------------------------------------------------ ModelArchitecture
\* A string is the sequence of its characters.
UpperCase == <<"A", "B", "C", "D", "E", "F", "G", "H", "I", "J", "K", "L", "M", "N", "O", "P", "Q", "R", "S", "T", "U", "V", "W", "X", "Y", "Z">>
LowerCase == <<"a", "b", "c", "d", "e", "f", "g", "h", "i", "j", "k", "l", "m", "n", "o", "p", "q", "r", "s", "t", "u", "v", "w", "x", "y", "z">>
Digits == {"0", "1", "2", "3", "4", "5", "6", "7", "8", "9"}
Range(f) == {f[i] : i \in DOMAIN f}

\* char::to_lowercase, char::to_uppercase and char::is_alphanumeric for the
\* letters, digits and separators that are checked
ToLowerChar(c) ==
  IF c \in Range(UpperCase)
  THEN LowerCase[CHOOSE i \in DOMAIN UpperCase : UpperCase[i] = c] ELSE c
ToUpperChar(c) ==
  IF c \in Range(LowerCase)
  THEN UpperCase[CHOOSE i \in DOMAIN LowerCase : LowerCase[i] = c] ELSE c
IsAlphanumeric(c) == c \in Range(UpperCase) \cup Range(LowerCase) \cup Digits

\* str::to_lowercase, str::to_uppercase
ToLowercase(str) == [i \in DOMAIN str |-> ToLowerChar(str[i])]
ToUppercase(str) == [i \in DOMAIN str |-> ToUpperChar(str[i])]

\* from_str without the filter on the characters
Normalized_NoFilter(str) == ToLowercase(str)

\* s.to_lowercase().chars().filter(|c| c.is_alphanumeric()).collect::<String>()
Normalized(str) == SelectSeq(ToLowercase(str), IsAlphanumeric)

\* ModelArchitecture::ALL
ALL == {"Bloom", "Gpt2", "GptJ", "Llama", "GptNeoX", "RedPajama", "Rwkv"}

\* the string literal of the match arm of from_str that yields a
TagOf(a) ==
  CASE a = "Bloom" -> <<"b", "l", "o", "o", "m">>
    [] a = "Gpt2" -> <<"g", "p", "t", "2">>
    [] a = "GptJ" -> <<"g", "p", "t", "j">>
    [] a = "Llama" -> <<"l", "l", "a", "m", "a">>
    [] a = "GptNeoX" -> <<"g", "p", "t", "n", "e", "o", "x">>
    [] a = "RedPajama" -> <<"r", "e", "d", "p", "a", "j", "a", "m", "a">>
    [] a = "Rwkv" -> <<"r", "w", "k", "v">>

\* impl Display for ModelArchitecture
DisplayOf(a) ==
  CASE a = "Bloom" -> <<"B", "L", "O", "O", "M">>
    [] a = "Gpt2" -> <<"G", "P", "T", "-", "2">>
    [] a = "GptJ" -> <<"G", "P", "T", "-", "J">>
    [] a = "Llama" -> <<"L", "L", "a", "M", "A">>
    [] a = "GptNeoX" -> <<"G", "P", "T", "-", "N", "e", "o", "X">>
    [] a = "RedPajama" -> <<"R", "e", "d", "P", "a", "j", "a", "m", "a">>
    [] a = "Rwkv" -> <<"R", "W", "K", "V">>

\* Ok(arch) and Err(UnsupportedModelArchitecture(format!("{m} is not a
\* supported model architecture")))
ArchOk(a) == [ok |-> TRUE, arch |-> a, m |-> <<>>]
UnsupportedModelArchitecture(m) == [ok |-> FALSE, arch |-> "", m |-> m]

\* impl FromStr for ModelArchitecture
FromStr(str) ==
  LET m == Normalized(str)
  IN IF \E a \in ALL : TagOf(a) = m
     THEN ArchOk(CHOOSE a \in ALL : TagOf(a) = m)
     ELSE UnsupportedModelArchitecture(m)

\* the strings that are parsed: the Display strings and the tags, in other
\* cases, with a separator inserted, with a character removed or added
Separators == {"-", "_", " "}
InsertAt(str, i, c) == SubSeq(str, 1, i) \o <<c>> \o SubSeq(str, i + 1, Len(str))
DeleteAt(str, i) == SubSeq(str, 1, i - 1) \o SubSeq(str, i + 1, Len(str))
ArchInputs ==
  UNION {LET D == DisplayOf(a)
         IN {D, TagOf(a), ToLowercase(D), ToUppercase(D), D \o <<"x">>, <<>>}
            \cup {InsertAt(D, i, c) : i \in 0 .. Len(D), c \in Separators}
            \cup {DeleteAt(D, i) : i \in 1 .. Len(D)}
         : a \in ALL}

InitArch ==
  /\ model = Gpt2Model
  /\ session = StartSession(model, DefaultConfig)
  /\ frame = Idle
  /\ call = NoCall("start_session")
  /\ hist_ok = TRUE

\* input.parse::<ModelArchitecture>()
FromStrCall(input) ==
  /\ call' = [op |-> "from_str", input |-> input, result |-> FromStr(input)]
  /\ UNCHANGED <<model, session, frame, hist_ok>>

NextArch == \E input \in ArchInputs : FromStrCall(input)

SpecArch == InitArch /\ [][NextArch]_vars

\* ------------------------------------------ sessions that share a model
\* Several sessions are started from one model; session is the array of
\* them and call.ops[w] the calls made on session w so far.
Workers == {1, 2}
SharedPrompts == {<<>>, <<2>>, <<0, 1>>}

\* a call that writes its result to every session
WithSession_All(sessions, w, s2) == [v \in DOMAIN sessions |-> s2]

\* feed_prompt and infer_next_token take the session as &mut self and the
\* model as &dyn Model: of all sessions only the receiver is written
WithSession(sessions, w, s2) == [sessions EXCEPT ![w] = s2]

\* the description of one call: its name and its arguments
FeedOp(prompt, nb) == <<"feed_prompt", prompt, nb>>
NextOp(next_token) == <<"infer_next_token", next_token>>

\* Rwkv::evaluate with its body in place: the state of the session is
\* copied to self.state and the graph is computed in the cells of the model
ModelAfterEvaluate_Uncommented(m, e) ==
  IF m.arch = "rwkv" THEN [m EXCEPT !.cells = Some(e.last)] ELSE m

\* The model after one evaluate call e on it.  evaluate takes the model as
\* &self: Gpt2 has no field with interior mutability, and the body of
\* Rwkv::evaluate, which borrows the RefCell fields mutably, is commented out.
ModelAfterEvaluate(m, e) == m

\* the model after the evaluate calls evals[k], evals[k + 1], ..
RECURSIVE ModelAfter(_, _, _)
ModelAfter(m, evals, k) ==
  IF k > Len(evals) THEN m
  ELSE ModelAfter(ModelAfterEvaluate(m, evals[k]), evals, k + 1)

\* the session and the model after the call o was made on the session s;
\* of the model the call reaches nothing but evaluate's &self
ApplyOp(m, s, o) ==
  LET r == IF o[1] = "feed_prompt"
           THEN FeedPrompt(m, s, o[2], o[3], NewCallback("bytes", 0))
           ELSE InferNextToken(m, s, o[2])
  IN [sess |-> r.sess, model |-> ModelAfter(m, r.evals, 1)]

\* the session after the calls ops[k], ops[k + 1], .. were made on s alone
RECURSIVE RunAlone(_, _, _, _)
RunAlone(m, s, ops, k) ==
  IF k > Len(ops) THEN s
  ELSE LET r == ApplyOp(m, s, ops[k]) IN RunAlone(r.model, r.sess, ops, k + 1)

InitShared ==
  /\ model \in Models
  /\ session = [w \in Workers |-> StartSession(model, DefaultConfig)]
  /\ frame = Idle
  /\ call = [ops |-> [w \in Workers |-> <<>>]]
  /\ hist_ok = TRUE

\* the call o on the session of worker w
SharedCall(w, o) ==
  /\ Len(call.ops[w]) < MaxCalls
  /\ \E r \in {ApplyOp(model, session[w], o)} :
        /\ session' = WithSession(session, w, r.sess)
        /\ model' = r.model
  /\ call' = [ops |-> [call.ops EXCEPT ![w] = Append(@, o)]]
  /\ UNCHANGED <<frame, hist_ok>>

\* sessions[w].feed_prompt(&model, ..)
SharedFeedPromptCall(w, prompt, nb) == SharedCall(w, FeedOp(prompt, nb))

\* sessions[w].infer_next_token(&model, ..)
SharedInferNextTokenCall(w, next_token) == SharedCall(w, NextOp(next_token))

NextShared ==
  \/ \E w \in Workers, prompt \in SharedPrompts, nb \in Batches :
        SharedFeedPromptCall(w, prompt, nb)
  \/ \E w \in Workers, next_token \in TokenIds :
        SharedInferNextTokenCall(w, next_token)

SpecShared == InitShared /\ [][NextShared]_vars

\* ------------------------------ a model with a beginning-of-text marker
InitBot ==
  /\ model = BotModel
  /\ session = StartSession(model, DefaultConfig)
  /\ frame = Idle
  /\ call = NoCall("start_session")
  /\ hist_ok = TRUE

NextBot ==
  \/ \E prompt \in Prompts, nb \in Batches, failAt \in Fails :
        FeedPromptCall(prompt, nb, failAt)
  \/ \E next_token \in SampleRange(session) : InferNextTokenCall(next_token)

SpecBot == InitBot /\ [][NextBot]_vars

\* ------------------------- a GPT-2 model loaded with its own context size
\* ModelParameters.n_context_tokens is chosen by the caller who loads the
\* model, hyperparameters.n_ctx is read from the model file.
Strides == (NCtx - 1) .. (NCtx + 2)
StrideModels == {[Gpt2Model EXCEPT !.n_context_tokens = c] : c \in Strides}

\* the slots of the view that evaluate copies the keys (values) of layer il
\* to: n slots at offset il * n_ctx + n_past, n_ctx = self.n_context_tokens
Gpt2KvSlots(m, n_past, n, il) ==
  {il * m.n_context_tokens + n_past + j : j \in 0 .. (n - 1)}

\* the slots of layer il in a tensor laid out as [layer][position][embedding]
LayerRegion(m, il) == (il * m.n_ctx) .. ((il + 1) * m.n_ctx - 1)

\* every view of the evaluate call e lies in the tensor of the session
KvInTensor(m, s, e) ==
  \A il \in 0 .. (m.n_layer - 1) :
     Gpt2KvSlots(m, e.before, e.n, il) \subseteq DOMAIN s.memory_k

\* A copy to a view that reaches past the end of the tensor writes memory
\* the tensor does not own: the call may complete or the process may abort.
KvOutcomes(m, s, evals) ==
  IF \A k \in DOMAIN evals : KvInTensor(m, s, evals[k])
  THEN {"done"} ELSE {"done", "abort"}

InitStride ==
  /\ model \in StrideModels
  /\ session = StartSession(model, DefaultConfig)
  /\ frame = Idle
  /\ call = NoCall("start_session")
  /\ hist_ok = TRUE

\* session.feed_prompt(model, params, prompt, output_request, callback)
StrideFeedPromptCall(prompt, nb) ==
  /\ call.result # "abort"
  /\ Len(session.tokens) + Len(prompt) <= MaxTokens
  /\ \E r \in {FeedPrompt(model, session, prompt, nb, NewCallback("bytes", 0))} :
        \E o \in KvOutcomes(model, session, r.evals) :
           /\ session' = IF o = "abort" THEN session ELSE r.sess
           /\ call' = [NoCall("feed_prompt") EXCEPT
                         !.T = r.T, !.evals = r.evals,
                         !.result = IF o = "abort" THEN "abort" ELSE r.result]
           /\ hist_ok' = (hist_ok /\ o = "done" /\ r.result = "Ok")
  /\ UNCHANGED <<model, frame>>

\* session.infer_next_token(model, params, output_request, rng)
StrideInferNextTokenCall(next_token) ==
  /\ call.result # "abort"
  /\ Len(session.tokens) < MaxTokens
  /\ \E r \in {InferNextToken(model, session, next_token)} :
        \E o \in KvOutcomes(model, session, r.evals) :
           /\ session' = IF o = "abort" THEN session ELSE r.sess
           /\ call' = [NoCall("infer_next_token") EXCEPT
                         !.evals = r.evals, !.samples = r.samples, !.next_calls = 1,
                         !.result = IF o = "abort" THEN "abort" ELSE r.result]
           /\ hist_ok' = (hist_ok /\ o = "done" /\ r.result = "Ok")
  /\ UNCHANGED <<model, frame>>

NextStride ==
  \/ \E prompt \in Prompts, nb \in Batches : StrideFeedPromptCall(prompt, nb)
  \/ \E next_token \in SampleRange(session) : StrideInferNextTokenCall(next_token)

SpecStride == InitStride /\ [][NextStride]_vars

\* ------------------------------------------------------ cloned sessions
\* impl Clone for InferenceSession: the tensors of the clone are allocated
\* in a new context and nothing is copied to them; n_past, tokens,
\* last_logits and config are copied.
Clone(s) ==
  [s EXCEPT !.memory_k = [i \in DOMAIN s.memory_k |-> None],
            !.memory_v = [i \in DOMAIN s.memory_v |-> None],
            !.state = [i \in DOMAIN s.state |-> None]]

\* let session = session.clone(): the caller goes on with the clone
CloneCall ==
  /\ frame.pc = "idle"
  /\ session' = Clone(session)
  /\ call' = NoCall("clone")
  /\ UNCHANGED <<model, frame, hist_ok>>

NextClone ==
  \/ \E prompt \in Prompts, nb \in Batches : FeedPromptCall(prompt, nb, 0)
  \/ \E next_token \in SampleRange(session) : InferNextTokenCall(next_token)
  \/ CloneCall

SpecClone == Init /\ [][NextClone]_vars

\* ------------------------------------------------------ the OutputRequest
\* struct OutputRequest { all_logits, embeddings }: a slot is None, or Some
\* vector that evaluate fills.  What evaluate deposits is represented by the
\* call it comes from: the position and the tokens of its input.
DefaultOutputRequest == [all_logits |-> None, embeddings |-> None]
Collecting == Some(<<>>)
OutputRequests == [all_logits : {None, Collecting}, embeddings : {None, Collecting}]

\* common::extract_logits: the logits of all positions, when asked for
ExtractLogits(out, n_past, input) ==
  IF out.all_logits = None THEN out
  ELSE [out EXCEPT !.all_logits = Some(<<[n_past |-> n_past, input |-> input]>>)]

\* common::extract_embeddings: the embeddings of the input, when asked for
ExtractEmbeddings(out, n_past, input) ==
  IF out.embeddings = None THEN out
  ELSE [out EXCEPT !.embeddings = Some(<<[n_past |-> n_past, input |-> input]>>)]

\* what model.evaluate(session, params, input, output_request) leaves in
\* output_request: GPT-2 extracts the logits and the embeddings, the body
\* of the RWKV evaluate is commented out
EvaluateOutput(m, n_past, input, out) ==
  IF m.arch = "gpt2"
  THEN ExtractEmbeddings(ExtractLogits(out, n_past, input), n_past, input)
  ELSE out

\* output_request after the evaluate calls k, k + 1, .. of feed_prompt, one
\* call per chunk of nb tokens of T
RECURSIVE FeedOutput(_, _, _, _, _, _)
FeedOutput(m, T, nb, evals, k, out) ==
  IF k > Len(evals) THEN out
  ELSE FeedOutput(m, T, nb, evals, k + 1,
                  EvaluateOutput(m, evals[k].before, Chunk(T, nb, (k - 1) * nb + 1), out))

\* the generation loop handing the caller's request to infer_next_token
GenerationRequest_Callers(callers) == [req |-> callers, temporary |-> FALSE]

\* the request the generation loop hands to infer_next_token:
\* &mut Default::default(), a temporary that is dropped after the call
GenerationRequest(callers) == [req |-> DefaultOutputRequest, temporary |-> TRUE]

InitOutput ==
  /\ model \in Models
  /\ session = StartSession(model, DefaultConfig)
  /\ frame = Idle
  /\ call = [op |-> "start_session", result |-> "Ok", given |-> DefaultOutputRequest,
             output_request |-> DefaultOutputRequest,
             after_feed |-> DefaultOutputRequest, handed |-> <<>>,
             T |-> <<>>, evals |-> <<>>, samples |-> <<>>, next_calls |-> 0]
  /\ hist_ok = TRUE

\* session.infer(model, rng, request, output_request, callback) up to the
\* entry of the generation loop, without playback
OutputInferFeed(given, prompt, nb, maximum_token_count) ==
  /\ frame.pc = "idle"
  /\ Len(session.tokens) + Len(prompt) <= MaxTokens
  /\ \E r \in {FeedPrompt(model, session, prompt, nb, NewCallback("text", 0))} :
        \E out \in {FeedOutput(model, r.T, nb, r.evals, 1, given)} :
           /\ session' = r.sess
           /\ call' = [op |-> "infer", given |-> given, output_request |-> out,
                       after_feed |-> out, handed |-> <<>>, T |-> r.T,
                       evals |-> r.evals, samples |-> <<>>, next_calls |-> 0,
                       result |-> IF r.result = "Ok" THEN "Running" ELSE r.result]
           /\ frame' = IF r.result = "Ok"
                       THEN [Idle EXCEPT !.pc = "generate",
                               !.maximum_token_count = maximum_token_count,
                               !.prompt_tokens = r.sess.n_past]
                       ELSE Idle
  /\ UNCHANGED <<model, hist_ok>>

\* one iteration of the generation loop of infer
OutputInferStep(next_token) ==
  /\ frame.pc = "generate"
  /\ LoopCond(frame.tokens_processed, frame.maximum_token_count)
  /\ Len(session.tokens) < MaxTokens
  /\ \E r \in {InferNextToken(model, session, next_token)},
         g \in {GenerationRequest(call.output_request)} :
        \E written \in {IF r.evals = <<>> THEN g.req
                         ELSE EvaluateOutput(model, r.evals[1].before,
                                             <<next_token>>, g.req)} :
           /\ session' = r.sess
           /\ call' = [call EXCEPT
                         !.output_request = IF g.temporary THEN @ ELSE written,
                         !.handed = Append(@, [req |-> g.req, left |-> written]),
                         !.evals = r.evals, !.samples = @ \o r.samples,
                         !.next_calls = @ + 1,
                         !.result = IF LoopOutcome(r.result) = "continue" THEN "Running"
                                    ELSE IF LoopOutcome(r.result) = "break" THEN "Ok"
                                    ELSE r.result]
           /\ frame' = IF LoopOutcome(r.result) = "continue"
                       THEN [frame EXCEPT !.tokens_processed = @ + 1]
                       ELSE Idle
  /\ UNCHANGED <<model, hist_ok>>

\* the loop condition of infer is false: infer returns
OutputInferReturn ==
  /\ frame.pc = "generate"
  /\ ~LoopCond(frame.tokens_processed, frame.maximum_token_count)
  /\ call' = [call EXCEPT !.result = "Ok", !.evals = <<>>]
  /\ frame' = Idle
  /\ UNCHANGED <<model, session, hist_ok>>

NextOutput ==
  \/ \E given \in OutputRequests, prompt \in Prompts, nb \in Batches,
        maximum_token_count \in Counts :
        OutputInferFeed(given, prompt, nb, maximum_token_count)
  \/ \E next_token \in SampleRange(session) : OutputInferStep(next_token)
  \/ OutputInferReturn

SpecOutput == InitOutput /\ [][NextOutput]_vars

\* ----------------------------------------------------------- properties
IsPrefix(a, b) == Len(a) <= Len(b) /\ SubSeq(b, 1, Len(a)) = a

\* C1: after any sequence of feed_prompt and infer_next_token calls that all
\* returned successfully on a fresh session, tokens.len() == n_past.
C1_TokensMatchNPast == hist_ok => Len(session.tokens) = session.n_past

\* C2: a feed_prompt call whose callback returns an error on a session with
\* tokens.len() == n_past returns UserCallback, keeps the tokens pushed before
\* the failure and leaves tokens.len() == n_past.
C2_CallbackErrorConsistent ==
  [][(/\ call'.op = "feed_prompt"
      /\ call'.result = "UserCallback"
      /\ Len(session.tokens) = session.n_past)
     => (/\ IsPrefix(session.tokens, session'.tokens)
         /\ Len(session'.tokens) = session'.n_past)]_vars

\* C3: infer_next_token on a session with n_past + 1 >= n_context_tokens
\* returns ContextFull, samples nothing, evaluates nothing and leaves the
\* session (n_past, tokens, last_logits, KV cache) as it was.
C3_ContextFullNoMutation ==
  [][(/\ call'.op = "infer_next_token"
      /\ session.n_past + 1 >= NContextTokens(model))
     => (/\ call'.result = "ContextFull"
         /\ session' = session
         /\ call'.samples = <<>>
         /\ call'.evals = <<>>)]_vars

C3_Witness ==
  /\ call.op = "infer_next_token"
  /\ call.result = "ContextFull"
  /\ session.n_past = NContextTokens(model) - 1
  /\ session.tokens # <<>>

\* C4: a feed_prompt call whose prompt tokenizes to T returns ContextFull
\* exactly when n_past + |T| >= n_context_tokens, and then it has called
\* neither evaluate nor the callback and the session is as it was.
C4_FeedContextFull ==
  [][(/\ call'.op = "feed_prompt"
      /\ call'.result # "TokenizationError")
     => (/\ (call'.result = "ContextFull")
              <=> (session.n_past + Len(call'.T) >= NContextTokens(model))
         /\ call'.result = "ContextFull"
              => (/\ session' = session
                  /\ call'.evals = <<>>
                  /\ call'.cbs = <<>>))]_vars

C4_Witness ==
  /\ call.op = "feed_prompt"
  /\ call.result = "ContextFull"
  /\ session.n_past > 0
  /\ session.n_past + Len(call.T) = NContextTokens(model)

\* C5: in every state reached by feed_prompt, infer_next_token and infer
\* calls, successful or not, 0 <= n_past <= n_ctx - 1.
C5_NPastInWindow ==
  /\ 0 <= session.n_past
  /\ session.n_past <= NContextTokens(model) - 1

C5_Witness ==
  /\ call.op = "infer"
  /\ call.result = "ContextFull"
  /\ call.next_calls > 1
  /\ session.n_past = NContextTokens(model) - 1

\* C6: every evaluate call with a non-empty input increases n_past by the
\* number of input tokens and leaves in last_logits the logits of the last
\* input token.
C6_EvaluateContract ==
  \A i \in 1 .. Len(call.evals) :
    LET e == call.evals[i]
    IN /\ e.n >= 1
       /\ e.after = e.before + e.n
       /\ Len(e.logits.of) = e.after
       /\ e.logits.of[e.after] = [k |-> Some(e.last), v |-> Some(e.last)]

\* C7: the generation loop of infer ends after at most
\* min(maximum_token_count, n_ctx - n_past) calls of infer_next_token.
C7_InferLoopBound ==
  call.op = "infer" =>
    LET room == NContextTokens(model) - call.prompt_tokens
    IN call.next_calls <= IF call.maximum_token_count = None THEN room
                          ELSE Min(call.maximum_token_count[1], room)

\* C8: when infer_next_token returns EndOfText inside infer, infer returns
\* Ok with its statistics; when it returns ContextFull, infer returns that
\* error and no statistics.
C8_EndOfTextIsClean ==
  [][(/\ frame.pc = "generate"
      /\ call'.next_calls = call.next_calls + 1)
     => (/\ (session.n_past + 1 >= NContextTokens(model))
              => (/\ call'.result = "ContextFull"
                  /\ call'.stats = None
                  /\ frame'.pc = "idle")
         /\ (/\ session.n_past + 1 < NContextTokens(model)
             /\ call'.samples[Len(call'.samples)] = EotTokenId(model))
              => (/\ call'.result = "Ok"
                  /\ call'.stats = Some(Stats(call.prompt_tokens, session'.n_past))
                  /\ frame'.pc = "idle"))]_vars

C8_Witness ==
  /\ call.op = "infer"
  /\ frame.pc = "idle"
  /\ call.result = "Ok"
  /\ call.samples # <<>>
  /\ call.samples[Len(call.samples)] = EotTokenId(model)
  /\ call.stats # None

\* C9: infer with maximum_token_count = 0 calls neither the sampler nor
\* infer_next_token, and the statistics it returns have
\* predict_tokens == prompt_tokens.
C9_ZeroTokenCount ==
  (call.op = "infer" /\ call.maximum_token_count = Some(0))
    => (/\ call.samples = <<>>
        /\ call.next_calls = 0
        /\ (frame.pc = "idle" /\ call.result = "Ok")
             => (/\ call.stats # None
                 /\ call.stats[1].predict_tokens = call.stats[1].prompt_tokens))

C9_Witness ==
  /\ call.op = "infer"
  /\ call.maximum_token_count = Some(0)
  /\ frame.pc = "idle"
  /\ call.result = "Ok"
  /\ call.T # <<>>
  /\ call.stats = Some(Stats(Len(session.tokens), Len(session.tokens)))

\* C10: a successful feed_prompt of a prompt tokenized to T appends T to
\* tokens and adds |T| to n_past, whatever n_batch is.
C10_FeedAppendsPrompt ==
  [][(/\ call'.op = "feed_prompt"
      /\ call'.result = "Ok")
     => (/\ session'.tokens = session.tokens \o call'.T
         /\ session'.n_past = session.n_past + Len(call'.T))]_vars

\* C11: a session restored from its own snapshot (get_snapshot, to_owned,
\* from_snapshot) gives, call by call, the sampler the same logits and token
\* history as the original and so, with the same parameters and RNG state,
\* yields the same sequence of next tokens and results.
C11_RestoredSameTokens ==
  [][(/\ call'.op = "from_snapshot"
      /\ call'.snapshot = Some(ToOwned(GetSnapshot(session))))
     => (/\ call'.result = "Ok"
         /\ \A draws \in SeqsUpTo(TokenIds, MaxDraws) :
               NextTokens(model, session', draws) = NextTokens(model, session, draws))]_vars

\* a restored session with a token in its cache and room for two more
C11_Witness ==
  /\ call.op = "from_snapshot"
  /\ call.result = "Ok"
  /\ call.snapshot = Some(ToOwned(GetSnapshot(session)))
  /\ session.n_past > 0
  /\ session.memory_k[0] # None
  /\ session.last_logits.of # <<>>
  /\ LET r == NextTokens(model, session, <<0, 1>>)
     IN /\ r[2].result = "Ok"
        /\ r[2].input[1].logits.of[1] = [k |-> session.memory_k[0], v |-> session.memory_v[0]]

\* C12: for a snapshot A that from_snapshot accepts, the session B it
\* returns, the snapshot of B and the session C restored from that one, the
\* snapshot of C equals A in every field.
C12_SnapshotRoundTrip ==
  [][(/\ call'.op = "from_snapshot"
      /\ call'.result = "Ok")
     => LET A == call'.snapshot[1]
            B == session'
            rc == FromSnapshot(ToOwned(GetSnapshot(B)), model)
        IN /\ rc.result = "Ok"
           /\ ToOwned(GetSnapshot(rc.sess[1])) = A]_vars

C12_Witness ==
  /\ call.op = "from_snapshot"
  /\ call.result = "Ok"
  /\ call.snapshot[1].npast # Len(call.snapshot[1].tokens)
  /\ call.snapshot[1].memory_k.data[0] # None
  /\ session.n_past = call.snapshot[1].npast

\* C13: from_snapshot returns a session exactly when the memory_k, memory_v
\* and state byte lengths of the snapshot each equal the byte size of that
\* tensor in a fresh session started with snapshot.config; otherwise it
\* returns MemorySizeMismatch, writes no tensor and returns no session.
C13_SizeCheck ==
  [][(call'.op = "from_snapshot")
     => LET snap == call'.snapshot[1]
            fresh == StartSession(model, snap.config)
            fits == /\ snap.memory_k.len = NBytes(fresh.memory_k, snap.config.memory_k_type)
                    /\ snap.memory_v.len = NBytes(fresh.memory_v, snap.config.memory_v_type)
                    /\ snap.state.len = NBytes(fresh.state, "Float32")
        IN /\ (call'.result = "Ok") <=> fits
           /\ fits => (call'.error = None /\ session'.config = snap.config)
           /\ ~fits => (/\ call'.error # None
                        /\ call'.error[1].kind = "MemorySizeMismatch"
                        /\ call'.written = {}
                        /\ session' = session)]_vars

C13_Witness ==
  /\ call.op = "from_snapshot"
  /\ call.result = "Err"
  /\ call.error[1].self_size = call.error[1].input_size
  /\ call.snapshot[1].memory_k.len # call.snapshot[1].memory_v.len
  /\ session.n_past > 0

\* C14: after every call that creates or changes a session (start_session,
\* from_snapshot of a snapshot it accepts, feed_prompt, infer_next_token),
\* last_logits.len() == model.n_vocab().
C14_LogitsLen == session.last_logits.len = model.n_vocab

C16_BiasDominates ==
  (/\ call.op = "infer_next_token"
   /\ DOMAIN call.params.bias_tokens # {}
   /\ call.params.top_k >= 1)
  => (/\ call.sample # None
      /\ call.sample[1].status = "ok"
      /\ call.sample[1].token[1] \in DOMAIN call.params.bias_tokens)

\* C17: with repeat_penalty = 1.0 every token gets the same transformed
\* value whether or not it is in the repetition window, and the candidates,
\* their probabilities and the sampled token equal those with an empty
\* window (repetition_penalty_last_n = 0).
C17_UnitPenaltyIsNoOp ==
  [][(/\ call'.op = "infer_next_token"
      /\ call'.params.repeat_penalty = 1)
     => (/\ \A i \in DOMAIN session.last_logits :
               Transform(session.last_logits, session.tokens, call'.params, call'.neg, i)
                 = Transform(session.last_logits, <<>>, call'.params, call'.neg, i)
         /\ call'.sample =
              Some(Sample(session,
                          [call'.params EXCEPT !.repetition_penalty_last_n = 0],
                          call'.rng, call'.neg, call'.tie)))]_vars

C17_Witness ==
  /\ call.op = "infer_next_token"
  /\ call.params.repeat_penalty = 1
  /\ call.params.repetition_penalty_last_n = MaxHist
  /\ DOMAIN call.params.bias_tokens = {}
  /\ call.params.top_k = NVocab
  /\ Len(session.tokens) = MaxHist + 1
  /\ call.sample[1].status = "ok"
  /\ call.sample[1].token = Some(session.tokens[1])
  /\ Len(call.sample[1].surv) > 1

\* C18: infer_next_token reports invalid sampling parameters, in particular
\* top_k == 0, as a returned error, and no call panics.
C18_InvalidParamsReported ==
  call.op = "infer_next_token"
    => (/\ call.result # "panic"
        /\ call.params.top_k = 0 => call.result \notin {"Ok", "EndOfText"})

\* a byte string made of complete code points only: every lead byte is
\* followed by its continuation byte and every continuation byte follows a
\* lead byte
ValidUtf8(b) ==
  \A i \in 1 .. Len(b) :
    /\ b[i] = "L" => (i < Len(b) /\ b[i + 1] = "C")
    /\ b[i] = "C" => (i > 1 /\ b[i - 1] = "L")

\* C19: every string that infer passes to its text callback, during
\* playback, prompt feeding and generation, is made of complete UTF-8 code
\* points only, also when the bytes of a token end in the middle of one.
C19_CallbackTextIsUtf8 ==
  call.op = "infer" => \A i \in 1 .. Len(call.texts) : ValidUtf8(call.texts[i])

C19_Witness ==
  /\ call.op = "infer"
  /\ call.samples = <<0, 1>>
  /\ call.texts = << <<"L", "C">> >>

\* C20: for every architecture of ModelArchitecture::ALL, from_str of its
\* Display string returns that architecture; from_str ignores the case of
\* the input and its non-alphanumeric characters; a string that does not
\* normalise to a known tag yields UnsupportedModelArchitecture.
C20_ArchRoundTrip ==
  call.op = "from_str" =>
    /\ \A a \in ALL : call.input = DisplayOf(a) => call.result = ArchOk(a)
    /\ FromStr(ToUppercase(call.input)) = call.result
    /\ \A i \in 0 .. Len(call.input), c \in Separators :
          FromStr(InsertAt(call.input, i, c)) = call.result
    /\ (\A a \in ALL : Normalized(call.input) # TagOf(a))
          => call.result = UnsupportedModelArchitecture(Normalized(call.input))
    /\ call.result.ok => call.result.arch \in ALL

C20_Witness ==
  /\ call.op = "from_str"
  /\ call.input = DisplayOf("GptNeoX")
  /\ call.input # TagOf("GptNeoX")
  /\ call.result = ArchOk("GptNeoX")

\* C21: when two sessions share one model and their feed_prompt and
\* infer_next_token calls are interleaved in any order, each session is in
\* the state its own calls alone produce on a fresh session, and the model
\* is never written.
C21_SessionsIndependent ==
  [][/\ model' = model
     /\ \A w \in Workers :
          session'[w] = RunAlone(model', StartSession(model', DefaultConfig),
                                 call'.ops[w], 1)]_vars

C21_Witness ==
  /\ model = Gpt2Model
  /\ \A w \in Workers : Len(call.ops[w]) = MaxCalls
  /\ session[1].n_past = 2
  /\ session[2].n_past = 1
  /\ session[1].memory_k # session[2].memory_k
  /\ session[2].last_logits.of # <<>>

\* C22: every infer_next_token call that passes the ContextFull check,
\* called directly or by infer, samples one token t, appends exactly t to
\* tokens and calls evaluate exactly once, with [t]; it returns EndOfText
\* exactly when t is eot_token_id, and then the EOT token is in tokens and
\* n_past has counted it.
C22_NextTokenStep ==
  [][LET direct == call'.op = "infer_next_token"
         inside == call'.op = "infer" /\ call'.next_calls = call.next_calls + 1
         t == call'.samples[Len(call'.samples)]
     IN ((direct \/ inside) /\ ~InferContextFull(model, session)) =>
          /\ Len(call'.samples) = (IF direct THEN 1 ELSE Len(call.samples) + 1)
          /\ session'.tokens = Append(session.tokens, t)
          /\ Len(call'.evals) = 1
          /\ call'.evals[1].n = 1
          /\ call'.evals[1].last = t
          /\ direct => (call'.result = "EndOfText" <=> t = EotTokenId(model))
          /\ inside => (call'.result = "Ok" <=> t = EotTokenId(model))
          /\ t = EotTokenId(model) => session'.n_past = session.n_past + 1]_vars

\* the number of tokens that the first k of the evaluate calls were given
RECURSIVE Evaluated(_, _)
Evaluated(evals, k) == IF k = 0 THEN 0 ELSE evals[k].n + Evaluated(evals, k - 1)

\* C23: in a successful feed_prompt the byte callback is called exactly once
\* for each prompt token other than bot_token_id, in prompt order and after
\* the evaluate call of the batch that holds the token; a token equal to
\* bot_token_id is not given to the callback but is appended to tokens.
C23_CallbackPerToken ==
  [][(call'.op = "feed_prompt" /\ call'.result = "Ok") =>
       LET T == call'.T
           shown == {i \in DOMAIN T : Some(T[i]) # BotTokenId(model)}
       IN /\ Len(call'.cb_at) = Cardinality(shown)
          /\ {call'.cb_at[j].index : j \in DOMAIN call'.cb_at} = shown
          /\ \A j \in DOMAIN call'.cb_at :
                /\ j > 1 => call'.cb_at[j - 1].index < call'.cb_at[j].index
                /\ call'.cbs[j] = T[call'.cb_at[j].index]
                /\ call'.texts[j] = TokenBytes(call'.cbs[j])
                /\ call'.cb_at[j].index <= Evaluated(call'.evals, call'.cb_at[j].evals)
          /\ Len(call'.texts) = Len(call'.cb_at)
          /\ session'.tokens = session.tokens \o T]_vars

C23_Witness ==
  /\ call.op = "feed_prompt"
  /\ call.result = "Ok"
  /\ call.T = <<0, 0, 1>>
  /\ call.cbs = <<1>>
  /\ Len(call.evals) = 2
  /\ session.tokens = <<0, 0, 1>>

\* C24: whenever the sampler runs (an infer_next_token call, direct or made
\* by infer, that passes the ContextFull check) on a session whose tokens
\* are not empty, last_logits was computed by an evaluate call whose last
\* input token is the last element of tokens, at its position.
C24_LogitsOfLastToken ==
  [][LET direct == call'.op = "infer_next_token"
         inside == call'.op = "infer" /\ call'.next_calls = call.next_calls + 1
         n == Len(session.tokens)
     IN ((direct \/ inside) /\ ~InferContextFull(model, session) /\ n > 0) =>
          /\ Len(session.last_logits.of) = n
          /\ session.last_logits.of[n] = [k |-> Some(session.tokens[n]),
                                           v |-> Some(session.tokens[n])]]_vars

\* C25: every evaluate call made by feed_prompt or infer_next_token is given
\* at least one token and n_past + |input_tokens| <= n_context_tokens holds
\* when it is made; a prompt that tokenizes to nothing causes no evaluate
\* call.
C25_EvaluatePrecondition ==
  /\ \A k \in DOMAIN call.evals :
        /\ call.evals[k].n >= 1
        /\ call.evals[k].before + call.evals[k].n <= NContextTokens(model)
  /\ (call.op = "feed_prompt" /\ call.T = <<>>) => call.evals = <<>>

C25_Witness ==
  /\ model = Gpt2Model
  /\ call.op = "feed_prompt"
  /\ Len(call.evals) = 2
  /\ call.evals[2].before = 1
  /\ call.evals[2].before + call.evals[2].n = NContextTokens(model) - 1

\* C26: the playback phase of infer runs before the prompt is fed; with
\* play_back_previous_tokens it pushes the bytes of every existing token, in
\* order, through the UTF-8 buffer (up to a failing callback), without it
\* nothing is emitted; it calls neither evaluate nor the sampler and leaves
\* the session (n_past, tokens, last_logits, the caches) unchanged.
C26_PlayBackFrame ==
  [][(frame.pc = "idle" /\ call'.op = "infer") =>
       /\ session' = session
       /\ call'.evals = <<>>
       /\ call'.samples = <<>>
       /\ call'.next_calls = 0
       /\ call'.T = <<>>
       /\ frame'.pc \in {"feed", "idle"}
       /\ ~call'.play_back => call'.texts = <<>>
       /\ (call'.play_back /\ call'.result = "Running") =>
            Flatten(call'.texts) \o frame'.cb.buf = BytesOf(session.tokens)
       /\ (call'.play_back /\ call'.result # "Running") =>
            IsPrefix(Flatten(call'.texts), BytesOf(session.tokens))]_vars

C26_Witness ==
  /\ call.op = "infer"
  /\ call.play_back
  /\ frame.pc = "feed"
  /\ session.tokens = <<0, 1>>
  /\ session.n_past = 2
  /\ call.texts = << <<"L", "C">> >>
  /\ call.evals = <<>>

\* C27: for every token id in bias_tokens the value the sampler ranks is
\* the bias itself, whatever the logit, the temperature, repeat_penalty and
\* the repetition window are; a token that is not in bias_tokens gets the
\* value it gets without any bias.
C27_BiasOverrides ==
  [][call'.op = "infer_next_token" =>
       LET params == call'.params
           plain == [params EXCEPT !.bias_tokens = <<>>]
       IN \A i \in DOMAIN session.last_logits :
            Transform(session.last_logits, session.tokens, params, call'.neg, i) =
              IF i \in DOMAIN params.bias_tokens THEN params.bias_tokens[i]
              ELSE Transform(session.last_logits, session.tokens, plain, call'.neg, i)]_vars

C27_Witness ==
  /\ call.op = "infer_next_token"
  /\ call.result = "Ok"
  /\ call.params.bias_tokens = [i \in {0} |-> ToF32(200)]
  /\ call.params.repeat_penalty = 2
  /\ call.params.temperature = 2
  /\ call.params.repetition_penalty_last_n = 1
  /\ call.params.top_k = NVocab
  /\ session.tokens = <<1, 0, 0>>
  /\ call.sample[1].cand[1] = 0

\* C28: a token without a bias gets the penalised value exactly when it is
\* one of the last min(|tokens|, repetition_penalty_last_n) elements of
\* tokens, and the plain scaled value otherwise: a token that occurs only
\* before the window is not penalised, a window of 0 penalises nothing and a
\* window longer than the history is the whole history.
C28_PenaltyWindow ==
  [][call'.op = "infer_next_token" =>
       LET params == call'.params
           n == Len(session.tokens)
           k == Min(n, params.repetition_penalty_last_n)
           window == {session.tokens[p] : p \in (n - k + 1) .. n}
           plain(i) == Scaled(session.last_logits[i], params.temperature, i \in call'.neg)
       IN \A i \in DOMAIN session.last_logits \ DOMAIN params.bias_tokens :
            Transform(session.last_logits, session.tokens, params, call'.neg, i) =
              IF i \notin window THEN plain(i)
              ELSE IF F32Lt0(session.last_logits[i])
              THEN F32Mul(plain(i), params.repeat_penalty)
              ELSE F32Div(plain(i), params.repeat_penalty)]_vars

C28_Witness ==
  /\ call.op = "infer_next_token"
  /\ call.result = "Ok"
  /\ call.params.bias_tokens = <<>>
  /\ call.params.repeat_penalty = 2
  /\ call.params.temperature = 1
  /\ call.params.repetition_penalty_last_n = 1
  /\ Len(session.tokens) = 3
  /\ SubSeq(session.tokens, 1, 2) = <<1, 0>>
  /\ call.sample[1].cand = <<1, 2, 0>>
  /\ call.sample[1].weights = <<1000000, 1000000, 367879>>

\* C29: for a penalised token the sampler branches on the sign of the
\* logit as stored, not on that of the scaled value, whatever the sign of
\* the temperature: a logit below 0 gives (logit / temperature) *
\* repeat_penalty, any other (logit / temperature) / repeat_penalty; with
\* repeat_penalty > 1 and temperature > 0 the penalised value is not
\* greater than logit / temperature.
C29_PenaltySign ==
  [][call'.op = "infer_next_token" =>
       LET params == call'.params
           plain(i) == Scaled(session.last_logits[i], params.temperature, i \in call'.neg)
           value(i) == Transform(session.last_logits, session.tokens, params, call'.neg, i)
       IN \A i \in DOMAIN session.last_logits \ DOMAIN params.bias_tokens :
            InWindow(session.tokens, params.repetition_penalty_last_n, i) =>
              /\ F32Lt0(session.last_logits[i]) =>
                    value(i) = F32Mul(plain(i), params.repeat_penalty)
              /\ ~F32Lt0(session.last_logits[i]) =>
                    value(i) = F32Div(plain(i), params.repeat_penalty)
              /\ (params.repeat_penalty > 1 /\ params.temperature > 0) =>
                    ~TotalLess(plain(i), value(i))]_vars

\* temperature -1, logits -2, 2, 2 and token 0 penalised: its scaled value
\* 2 is above 0, its logit below, and the value is 2 * 2
C29_Witness ==
  /\ call.op = "infer_next_token"
  /\ call.params.bias_tokens = <<>>
  /\ call.params.repeat_penalty = 2
  /\ call.params.temperature = -1
  /\ call.params.repetition_penalty_last_n = 1
  /\ Len(session.tokens) = 2
  /\ session.tokens[1] = 0
  /\ call.sample[1].status = "ok"
  /\ call.sample[1].cand[1] = 0
  /\ call.sample[1].weights = <<1000000, 2479, 2479>>

\* C30: the Top-K step leaves exactly min(top_k, n_vocab) candidates, in
\* descending order of their transformed values and none of them below a
\* token that was dropped; the token the sampler returns is one of them,
\* so its value is at least that of the last candidate.
C30_TopK ==
  [][call'.op = "infer_next_token" =>
       LET params == call'.params
           smp == call'.sample[1]
           val == [i \in DOMAIN session.last_logits |->
                     Transform(session.last_logits, session.tokens, params, call'.neg, i)]
           cand == smp.cand
           kept == {cand[p] : p \in DOMAIN cand}
       IN /\ smp.at # "partial_sort"
          /\ smp.status = "ok" =>
               /\ Len(cand) = Min(params.top_k, Cardinality(DOMAIN val))
               /\ Cardinality(kept) = Len(cand)
               /\ \A p, q \in DOMAIN cand :
                     p < q => ~TotalLess(val[cand[p]], val[cand[q]])
               /\ \A i \in kept, j \in DOMAIN val \ kept : ~TotalLess(val[i], val[j])
               /\ smp.token[1] \in kept
               /\ ~TotalLess(val[smp.token[1]], val[cand[Len(cand)]])]_vars

\* the sum of the first n entries of w
RECURSIVE SumFirst(_, _)
SumFirst(w, n) == IF n = 0 THEN 0 ELSE w[n] + SumFirst(w, n - 1)

\* the weights (l - maxl).exp() of the candidates cand, in millionths
WeightsOf(val, cand) ==
  [p \in DOMAIN cand |-> ExpMicro(F32Sub(val[cand[p]], MaxLogit(val, cand)))]

\* C31: when the sampler returns, the candidates that survive Top-P are a
\* non-empty prefix of the Top-K candidates; with top_p < 1.0 it is the
\* shortest prefix whose cumulative probability is >= top_p, with
\* top_p = 1.0 it is all of them; the probabilities are cut to the same
\* length and renormalised to sum to 1, and the token is drawn among them.
C31_TopP ==
  [][(/\ call'.op = "infer_next_token"
      /\ call'.sample # None
      /\ call'.sample[1].status = "ok") =>
       LET params == call'.params
           smp == call'.sample[1]
           val == [i \in DOMAIN session.last_logits |->
                     Transform(session.last_logits, session.tokens, params, call'.neg, i)]
           W == WeightsOf(val, smp.cand)
           n == Len(smp.cand)
           k == Len(smp.surv)
       IN /\ k >= 1
          /\ IsPrefix(smp.surv, smp.cand)
          /\ Len(smp.weights) = k
          /\ smp.weights = SubSeq(W, 1, k)
          /\ params.top_p = 100 => k = n
          /\ params.top_p < 100 =>
                /\ SumFirst(W, k) * 100 >= params.top_p * SumFirst(W, n)
                /\ \A q \in 1 .. (k - 1) :
                      SumFirst(W, q) * 100 < params.top_p * SumFirst(W, n)
          /\ smp.total = SumFirst(smp.weights, k)
          /\ smp.total > 0
          /\ \E p \in 1 .. k : smp.token = Some(smp.surv[p])]_vars

C31_Witness ==
  /\ call.op = "infer_next_token"
  /\ call.sample # None
  /\ call.sample[1].status = "ok"
  /\ call.params.top_p = 50
  /\ Len(call.sample[1].cand) = 3
  /\ Len(call.sample[1].surv) = 2
  /\ call.sample[1].weights = <<1000000, 1000000>>
  /\ call.sample[1].token = Some(call.sample[1].surv[2])

\* a fresh session that has only the tokens and the last_logits of s
OnlySamplerInput(m, s) ==
  [StartSession(m, DefaultConfig) EXCEPT
     !.tokens = s.tokens, !.last_logits = s.last_logits]

\* C32: sample_top_p_top_k changes no field of the session, and what it
\* returns is determined by last_logits, tokens, the parameters and the RNG
\* draw: a session that agrees on last_logits and tokens only gets the same
\* token.  After a panic of the sampler the session is as it was; after a
\* token t was returned the session differs only by the push and the
\* evaluate of t that infer_next_token makes.
C32_SamplerStateless ==
  [][(call'.op = "infer_next_token" /\ call'.sample # None) =>
       LET smp == call'.sample[1]
       IN /\ smp = Sample(OnlySamplerInput(model, session),
                          call'.params, call'.rng, call'.neg, call'.tie)
          /\ smp.status = "panic" => session' = session
          /\ smp.status = "ok" =>
                session' = Evaluate(model,
                                    [session EXCEPT !.tokens = Append(@, smp.token[1])],
                                    <<smp.token[1]>>)]_vars

C32_Witness ==
  /\ call.op = "infer_next_token"
  /\ call.sample # None
  /\ call.sample[1].status = "ok"
  /\ call.params.repeat_penalty = 2
  /\ call.params.repetition_penalty_last_n = MaxHist
  /\ call.params.top_k = NVocab
  /\ Len(session.tokens) = MaxHist + 1
  /\ session.n_past = MaxHist + 1
  /\ session.memory_k[0] # None
  /\ call.sample[1].token = Some(session.tokens[1])

\* C33: one infer call with maximum_token_count = Some(c) makes at most c
\* infer_next_token calls and samples at most c tokens; every iteration of
\* the generation loop appends at most the one sampled token to tokens and
\* gives the text callback at most one string, none when the sampled token
\* is the EOT token or the call returned an error.
C33_GenerationBound ==
  [][/\ (call'.op = "infer" /\ call'.maximum_token_count # None)
          => /\ Len(call'.samples) <= call'.maximum_token_count[1]
             /\ call'.next_calls <= call'.maximum_token_count[1]
     /\ (frame.pc = "generate" /\ call'.next_calls = call.next_calls + 1) =>
         LET new == Len(call'.samples) - Len(call.samples)
         IN /\ new \in {0, 1}
            /\ Len(session'.tokens) = Len(session.tokens) + new
            /\ IsPrefix(call.texts, call'.texts)
            /\ Len(call'.texts) <= Len(call.texts) + new
            /\ (new = 1 /\ call'.samples[Len(call'.samples)] = EotTokenId(model))
                  => call'.texts = call.texts
            /\ new = 0 => call'.texts = call.texts
            /\ Len(call'.texts) > Len(call.texts) =>
                  frame.tokens_processed < (IF frame.maximum_token_count = None
                                            THEN frame.tokens_processed + 1
                                            ELSE frame.maximum_token_count[1])]_vars

C33_Witness ==
  /\ call.op = "infer"
  /\ frame.pc = "idle"
  /\ call.result = "Ok"
  /\ call.maximum_token_count = Some(2)
  /\ call.samples = <<0, 1>>
  /\ call.texts = << <<"L", "C">> >>
  /\ call.stats # None
  /\ Len(session.tokens) = Len(call.T) + 2

\* the f32 -1e30 that stands for an empty running max
RunningMaxSentinel == "-1e30"

\* C34: in a freshly created session the state tensor has n_layer * 5
\* slots of n_embd elements and, for every layer i, slot 5 * i + 4 holds
\* the sentinel -1e30.  A slot that was never written (None) holds whatever
\* the allocation left there, which is no particular value.
C34_StateSentinel ==
  call.op = "start_session" =>
    /\ DOMAIN session.state = 0 .. (model.n_layer * 5 - 1)
    /\ \A i \in 0 .. (model.n_layer - 1) :
          session.state[5 * i + 4] = Some(RunningMaxSentinel)

\* C35: every session that from_snapshot returns has tokens.len() == n_past
\* and n_past <= n_ctx - 1, whatever npast and tokens the snapshot holds.
C35_RestoredInvariant ==
  (call.op = "from_snapshot" /\ call.result = "Ok") =>
    /\ Len(session.tokens) = session.n_past
    /\ session.n_past <= NContextTokens(model) - 1

\* C36: in every GPT-2 evaluate call made by feed_prompt or
\* infer_next_token, for every layer il the slots the keys and values are
\* copied to lie inside the memory_k / memory_v tensor of the session and
\* inside the region of layer il, whatever ModelParameters.n_context_tokens
\* the model was loaded with.
C36_KvSliceInBounds ==
  \A k \in DOMAIN call.evals :
    \A il \in 0 .. (model.n_layer - 1) :
      LET slots == Gpt2KvSlots(model, call.evals[k].before, call.evals[k].n, il)
      IN /\ slots \subseteq DOMAIN session.memory_k
         /\ slots \subseteq DOMAIN session.memory_v
         /\ slots \subseteq LayerRegion(model, il)

\* C37: the clone of a session has the n_past, tokens, last_logits and
\* config of the original, its memory_k and memory_v hold the contents of
\* the original at every position below n_past of every layer, its state
\* tensor equals that of the original, and its snapshot equals the snapshot
\* of the original.
C37_CloneEquivalent ==
  [][call'.op = "clone" =>
       /\ session'.n_past = session.n_past
       /\ session'.tokens = session.tokens
       /\ session'.last_logits = session.last_logits
       /\ session'.config = session.config
       /\ \A il \in 0 .. (model.n_layer - 1), p \in 0 .. (session.n_past - 1) :
             /\ session'.memory_k[il * model.n_ctx + p] = session.memory_k[il * model.n_ctx + p]
             /\ session'.memory_v[il * model.n_ctx + p] = session.memory_v[il * model.n_ctx + p]
       /\ session'.state = session.state
       /\ GetSnapshot(session') = GetSnapshot(session)]_vars

\* C38: when a successful infer call produced every token of the session
\* (the session was fresh before it), the strings that the playback of the
\* next infer call emits concatenate to the same text as the strings the
\* callback received during that first call, also when the sampled EOT
\* token is among the tokens.
C38_PlayBackRepeats ==
  [][(/\ frame.pc = "idle"
      /\ call.op = "infer"
      /\ call.result = "Ok"
      /\ Len(session.tokens) = Len(call.T) + Len(call.samples)
      /\ call'.op = "infer"
      /\ call'.play_back
      /\ call'.result = "Running")
     => Flatten(call'.texts) = Flatten(call.texts)]_vars

\* C39: within one infer call no token byte is lost or reordered: when an
\* infer call without playback returns its statistics and the bytes of its
\* prompt tokens followed by the bytes of its generated tokens other than
\* EOT are complete code points up to a trailing incomplete one, the
\* strings its callback was given concatenate to exactly those complete
\* code points.  The prompt adapter and the generation loop use separate
\* buffers; the bytes of a prompt are complete code points, so the first
\* buffer is empty when the second one starts.
C39_NoByteLost ==
  (/\ call.op = "infer"
   /\ ~call.play_back
   /\ frame.pc = "idle"
   /\ call.result = "Ok")
  => LET bytes == BytesOf(call.T) \o BytesOf(SelectSeq(call.samples, LAMBDA x : x # EotTokenId(model)))
         k == CompleteLen(bytes, 1)
     IN SubSeq(bytes, k + 1, Len(bytes)) \in {<<>>, <<"L">>}
          => Flatten(call.texts) = SubSeq(bytes, 1, k)

\* a prompt of one token followed by a code point whose two bytes come from
\* two generated tokens
C39_Witness ==
  /\ call.op = "infer"
  /\ ~call.play_back
  /\ frame.pc = "idle"
  /\ call.result = "Ok"
  /\ call.T = <<2>>
  /\ call.samples = <<0, 1>>
  /\ call.texts = << <<"A">>, <<"L", "C">> >>

\* C40: during infer only the evaluate calls of feed_prompt write to the
\* caller's output_request: every infer_next_token call of the generation
\* loop is handed a fresh default OutputRequest, and from the end of
\* feed_prompt to the return of infer the caller's output_request keeps the
\* value it had at the end of feed_prompt.
C40_OutputRequestFrame ==
  [][/\ call'.op = "infer" => call'.output_request = call'.after_feed
     /\ frame.pc = "generate" =>
          /\ call'.after_feed = call.after_feed
          /\ call'.output_request = call.output_request
          /\ \A k \in DOMAIN call'.handed :
                call'.handed[k].req = DefaultOutputRequest]_vars

C40_Witness ==
  /\ model = Gpt2Model
  /\ call.op = "infer"
  /\ frame.pc = "idle"
  /\ call.result = "Ok"
  /\ call.given = [all_logits |-> Collecting, embeddings |-> Collecting]
  /\ Len(call.T) = 1
  /\ Len(call.samples) = 1
  /\ Len(call.handed) = 1
  /\ call.output_request.all_logits = Some(<<[n_past |-> 0, input |-> call.T]>>)
  /\ call.output_request # call.given
====
